---- MODULE Spec2Model ----
(***************************************************************************)
(* Model of the wealthwise performance dashboard (PerformancePage) and of  *)
(* its windowed metrics engine: filterSeries, computeMetrics,              *)
(* computeRelativeMetrics, computeMaxDrawdown, computeHoldingPerformance,  *)
(* buildChartData.                                                         *)
(*                                                                         *)
(* Numbers.  A JavaScript number is modelled as an exact fraction          *)
(* [n |-> numerator, d |-> denominator] in lowest terms with d > 0; the    *)
(* three non-finite results a division can produce are d = 0 with n = 0    *)
(* (NaN), n = 1 (+Infinity) and n = -1 (-Infinity).  Rounding of IEEE      *)
(* doubles and the sign of zero are not modelled: arithmetic is exact.     *)
(* Math.sqrt and Math.pow are kept symbolic (Sqrt, PowMinus1) and a        *)
(* quotient by a square root is kept as a pair (Quot).  null is the record *)
(* Null.                                                                   *)
(*                                                                         *)
(* The page.  The state is that of PerformancePage once the session is     *)
(* verified and loadPerformance has sent its request; the memos the        *)
(* metrics are computed from are variables recomputed by every handler, as *)
(* a render does; the holdings table and the chart rows, memos that        *)
(* nothing else reads, are functions of the state (holdingsView,           *)
(* chartData).                                                             *)
(*                                                                         *)
(* Dates.  An ISO date string "YYYY-MM-DD" is modelled by its day number   *)
(* (the order of the strings is the order of the day numbers); parseDate   *)
(* turns it into an epoch time, counted in seconds rather than             *)
(* milliseconds so that products stay within TLC's integers.               *)
(***************************************************************************)
EXTENDS Integers, Sequences, FiniteSets, TLC

VARIABLES
    lookedUp,             \* the last call of an as-of lookup: its arguments and result
    req,                  \* POST /api/ai/chat: the request, null before it arrives
    handlerPc,            \* POST: "waiting", "fetching" (awaiting the backend), "returned"
    backendRequests,      \* POST: the requests sent to the backend
    backendRes,           \* POST: what the backend call came to, null before it settles
    answer,               \* POST: the NextResponse returned, null before
    authStatus,           \* of each dashboard page, useState: "checking", "ready", "error"
    meRequest,            \* of each page, GET /me: "unsent", "pending", or how it settled
    route,                \* of each page: "page", or "/signin" after router.replace
    requested,            \* of each page: the data requests it has issued (paths)
    optimization,         \* the further state of OptimizationPage
    risk,                 \* the further state of RiskPage
    upload,               \* the further state of UploadPage
    assistant,            \* the state of the WealthWiseAssistant widget
    response,             \* the body the backend answers loadPerformance with
    dataStatus,           \* useState: "loading", "ready" or "error"
    payload,              \* useState<PerformanceResponse | null>
    selectedBenchmarks,   \* useState<string[]>
    viewMode,             \* useState: "value" or "indexed"
    overlaySymbols,       \* useState<string[]>
    rangeBounds,          \* useMemo: null or { startDate, endDate } (Date values)
    filteredPortfolio,    \* useMemo
    filteredBenchmarks,   \* useMemo
    overlaySeries,        \* useMemo
    metrics               \* useMemo

(* the state of PerformancePage *)
pageVars == <<response, dataStatus, payload, selectedBenchmarks, viewMode,
              overlaySymbols, rangeBounds, filteredPortfolio, filteredBenchmarks,
              overlaySeries, metrics>>

(* the state of a run of the POST handler of /api/ai/chat *)
chatVars == <<req, handlerPc, backendRequests, backendRes, answer>>

(* the session check and the request log of the four dashboard pages *)
sessionVars == <<authStatus, meRequest, route, requested>>

(* what the handlers of PerformancePage that follow the session check      *)
(* leave alone                                                             *)
offPage == <<lookedUp, chatVars, sessionVars, optimization, risk, upload, assistant>>

(* what a lookup called on its own leaves alone *)
offLookup == <<pageVars, chatVars, sessionVars, optimization, risk, upload, assistant>>

(* what the POST handler leaves alone *)
offChat == <<pageVars, lookedUp, sessionVars, optimization, risk, upload, assistant>>

(* what no dashboard page touches *)
offDashboard == <<lookedUp, chatVars, assistant>>

(* what the assistant widget leaves alone *)
offAssistant == <<pageVars, lookedUp, chatVars, sessionVars, optimization, risk, upload>>

vars == <<pageVars, offPage>>

-----------------------------------------------------------------------------
(* Bounds of the model *)

MaxLen == 3        \* longest series drawn for the payload
MaxValue == 2      \* values of drawn points are 0..MaxValue
MaxMessages == 2   \* longest conversation drawn for a chat request
MaxOutstanding == 2 \* most requests of one kind a page is let to have outstanding
LongestChat == 10  \* no message is sent from a conversation of this length

(* The calendar days on which drawn points and window ends may fall: two   *)
(* adjacent days and one day 30 days after the first (29 after the second) *)
Dates == {0, 1, 30}

-----------------------------------------------------------------------------
(* Numbers *)

Null == [null |-> TRUE]
Undefined == [undefined |-> TRUE]

AbsInt(i) == IF i < 0 THEN -i ELSE i

RECURSIVE Gcd(_, _)
Gcd(a, b) == IF b = 0 THEN a ELSE Gcd(b, a % b)

(* the number n/d in lowest terms; n/0 is NaN, +Infinity or -Infinity *)
Rat(n, d) ==
    IF d = 0
    THEN [n |-> IF n > 0 THEN 1 ELSE IF n < 0 THEN -1 ELSE 0, d |-> 0]
    ELSE LET s == IF d < 0 THEN -1 ELSE 1
             g == Gcd(AbsInt(n), AbsInt(d))
         IN  [n |-> (s * n) \div g, d |-> (s * d) \div g]

Num(i) == [n |-> i, d |-> 1]
Zero == Num(0)
One == Num(1)
NaN == [n |-> 0, d |-> 0]
PosInfinity == [n |-> 1, d |-> 0]
NegInfinity == [n |-> -1, d |-> 0]

IsNaN(a) == a.d = 0 /\ a.n = 0
IsFinite(a) == a.d > 0
(* a === 0 *)
IsZero(a) == a.n = 0 /\ a.d > 0

Neg(a) == [n |-> -a.n, d |-> a.d]

(* a + b; Infinity + Infinity is Infinity, Infinity - Infinity is NaN *)
Add(a, b) ==
    IF a.d = 0 /\ b.d = 0
    THEN (IF a.n = b.n THEN a ELSE NaN)
    ELSE Rat(a.n * b.d + b.n * a.d, a.d * b.d)
Sub(a, b) == Add(a, Neg(b))
Mul(a, b) == Rat(a.n * b.n, a.d * b.d)

(* a / b; x/0 is NaN, +Infinity or -Infinity, Infinity/Infinity is NaN *)
Div(a, b) ==
    IF a.d = 0 /\ b.d = 0 THEN NaN
    ELSE IF IsZero(b)
    THEN (IF a.n = 0 THEN NaN ELSE IF a.n > 0 THEN PosInfinity ELSE NegInfinity)
    ELSE Rat(a.n * b.d, a.d * b.n)

(* a < b; false when either side is NaN *)
Lt(a, b) ==
    IF IsNaN(a) \/ IsNaN(b) THEN FALSE
    ELSE IF a.d = 0 /\ b.d = 0 THEN a.n < b.n
    ELSE IF a.d = 0 THEN a.n < 0
    ELSE IF b.d = 0 THEN b.n > 0
    ELSE a.n * b.d < b.n * a.d

Gt(a, b) == Lt(b, a)
Le(a, b) == ~IsNaN(a) /\ ~IsNaN(b) /\ ~Lt(b, a)
Ge(a, b) == Le(b, a)

Abs(a) == [n |-> AbsInt(a.n), d |-> a.d]

(* Math.sqrt(q), symbolic *)
Sqrt(q) == [sqrt |-> q]
(* Math.sqrt(x) * Math.sqrt(y) = Math.sqrt(x * y) *)
MulSqrt(a, b) == Sqrt(Mul(a.sqrt, b.sqrt))
(* x / y, y a square root, symbolic *)
Quot(x, y) == [num |-> x, den |-> y]
(* Math.pow(base, exp) - 1, symbolic *)
PowMinus1(base, exp) == [base |-> base, exp |-> exp]

RECURSIVE SumLoop(_, _, _)
SumLoop(values, i, sum) ==
    IF i > Len(values) THEN sum
    ELSE LET next == Add(sum, values[i])
         IN  IF IsFinite(next) THEN SumLoop(values, i + 1, next) ELSE next

(* values.reduce((sum, v) => sum + v, 0); a non-finite sum absorbs every   *)
(* finite value that follows                                               *)
Sum(values) == SumLoop(values, 1, Zero)

-----------------------------------------------------------------------------
(* Dates *)

SecPerDay == 60 * 60 * 24

parseDate(raw) == raw * SecPerDay

(* filterSeries with the end of the window excluded *)
filterSeriesExclusiveEnd(series, start, end) ==
    SelectSeq(series, LAMBDA p : parseDate(p.date) >= start /\ parseDate(p.date) < end)

filterSeries(series, start, end) ==
    SelectSeq(series, LAMBDA p : parseDate(p.date) >= start /\ parseDate(p.date) <= end)

-----------------------------------------------------------------------------
(* The metrics engine *)

emptyMetrics ==
    [totalReturn |-> Null, totalAbs |-> Null, annualized |-> Null,
     volatility |-> Null, maxDrawdown |-> Null, sharpe |-> Null,
     beta |-> Null, correlation |-> Null]

(* values.reduce((sum, v) => sum + v, 0) / values.length *)
Mean(values) == Div(Sum(values), Num(Len(values)))

(* the squared deviations (v - mean) * (v - mean) *)
SqDevs(values, mean) ==
    [i \in 1..Len(values) |-> Mul(Sub(values[i], mean), Sub(values[i], mean))]

(* stdDev dividing by N - 1 (the sample standard deviation) *)
stdDevSample(values) ==
    IF Len(values) = 0 THEN Sqrt(Zero)
    ELSE LET mean == Mean(values)
             variance == Div(Sum(SqDevs(values, mean)), Num(Len(values) - 1))
         IN  Sqrt(variance)

stdDev(values) ==
    IF Len(values) = 0 THEN Sqrt(Zero)
    ELSE LET mean == Mean(values)
             variance == Div(Sum(SqDevs(values, mean)), Num(Len(values)))
         IN  Sqrt(variance)

(* the loop of computeMaxDrawdown with the peak left at the first value *)
RECURSIVE DrawdownLoopFirstPeak(_, _, _, _)
DrawdownLoopFirstPeak(values, i, maxPeak, maxDD) ==
    IF i > Len(values) THEN maxDD
    ELSE LET dd == Div(Sub(values[i], maxPeak), maxPeak)
         IN  IF Lt(dd, maxDD)
             THEN DrawdownLoopFirstPeak(values, i + 1, maxPeak, dd)
             ELSE DrawdownLoopFirstPeak(values, i + 1, maxPeak, maxDD)

RECURSIVE DrawdownLoop(_, _, _, _)
DrawdownLoop(values, i, maxPeak, maxDD) ==
    IF i > Len(values) THEN maxDD
    ELSE LET v == values[i]
             peak == IF Gt(v, maxPeak) THEN v ELSE maxPeak
             dd == Div(Sub(v, peak), peak)
         IN  IF Lt(dd, maxDD)
             THEN DrawdownLoop(values, i + 1, peak, dd)
             ELSE DrawdownLoop(values, i + 1, peak, maxDD)

(* computeMaxDrawdown without Math.abs *)
computeMaxDrawdownSigned(values) ==
    IF Len(values) = 0 THEN Null
    ELSE DrawdownLoop(values, 1, values[1], Zero)

computeMaxDrawdown(values) ==
    IF Len(values) = 0 THEN Null
    ELSE Abs(DrawdownLoop(values, 1, values[1], Zero))

ValuesOf(series) == [i \in 1..Len(series) |-> series[i].value]

RECURSIVE ReturnsLoop(_, _, _)
ReturnsLoop(series, i, returns) ==
    IF i > Len(series) THEN returns
    ELSE LET prev == series[i - 1].value
             curr == series[i].value
         IN  IF Gt(prev, Zero)
             THEN ReturnsLoop(series, i + 1, Append(returns, Sub(Div(curr, prev), One)))
             ELSE ReturnsLoop(series, i + 1, returns)

(* the daily-return list built by computeMetrics *)
DailyReturns(series) == ReturnsLoop(series, 2, <<>>)

(* the number of samples in place of the day span *)
SpanDaysBySamples(series) == Num(Len(series))

(* the calendar-day span between the first and the last sample *)
SpanDays(series) ==
    Rat(parseDate(series[Len(series)].date) - parseDate(series[1].date), SecPerDay)

(* the Sharpe ratio without the volatility > 0 guard *)
SharpeUnguarded(avgDaily, volatility) ==
    IF avgDaily # Null /\ volatility # Null
    THEN Quot(Mul(avgDaily, Num(252)), volatility)
    ELSE Null

(* avgDaily != null && volatility && volatility > 0
     ? (avgDaily * 252) / volatility : null *)
Sharpe(avgDaily, volatility) ==
    IF /\ avgDaily # Null
       /\ volatility # Null
       /\ Gt(volatility.sqrt, Zero)
    THEN Quot(Mul(avgDaily, Num(252)), volatility)
    ELSE Null

(* computeMetrics past its length guard *)
MetricsOf(series) ==
    LET start == series[1]
        end == series[Len(series)]
        days == SpanDays(series)
        totalReturn == IF Gt(start.value, Zero)
                       THEN Sub(Div(end.value, start.value), One)
                       ELSE Null
        totalAbs == Sub(end.value, start.value)
        returns == DailyReturns(series)
        volatility == IF Len(returns) # 0
                      THEN MulSqrt(stdDev(returns), Sqrt(Num(252)))
                      ELSE Null
        avgDaily == IF Len(returns) # 0 THEN Mean(returns) ELSE Null
        sharpe == Sharpe(avgDaily, volatility)
        annualized == IF totalReturn # Null /\ Ge(days, Num(30))
                      THEN PowMinus1(Add(One, totalReturn), Div(Num(365), days))
                      ELSE Null
        maxDrawdown == computeMaxDrawdown(ValuesOf(series))
    IN  [totalReturn |-> totalReturn, totalAbs |-> totalAbs,
         annualized |-> annualized, volatility |-> volatility,
         maxDrawdown |-> maxDrawdown, sharpe |-> sharpe,
         beta |-> Null, correlation |-> Null]

(* computeMetrics with the length guard off by one *)
computeMetricsOffByOne(series) ==
    IF Len(series) < 1 THEN emptyMetrics ELSE MetricsOf(series)

computeMetrics(series) ==
    IF Len(series) < 2 THEN emptyMetrics ELSE MetricsOf(series)

(* benchMap[b.date] = b.value for each point in turn (a later point with  *)
(* the same date overwrites an earlier one)                                *)
RECURSIVE BenchMapLoop(_, _, _)
BenchMapLoop(benchmark, i, benchMap) ==
    IF i > Len(benchmark) THEN benchMap
    ELSE BenchMapLoop(benchmark, i + 1,
             [d \in (DOMAIN benchMap) \cup {benchmark[i].date} |->
                 IF d = benchmark[i].date THEN benchmark[i].value ELSE benchMap[d]])

BenchMap(benchmark) == BenchMapLoop(benchmark, 1, [d \in {} |-> Zero])

(* obj[key] of a JavaScript object: undefined for a missing key *)
Get(obj, key) == IF key \in DOMAIN obj THEN obj[key] ELSE Undefined

(* the condition under which the loop of computeRelativeMetrics pushes a  *)
(* return pair for index i                                                 *)
PairIncluded(pf, benchMap, i) ==
    /\ Get(benchMap, pf[i].date) # Undefined
    /\ Get(benchMap, pf[i - 1].date) # Undefined
    /\ ~Le(pf[i - 1].value, Zero)
    /\ ~Le(Get(benchMap, pf[i - 1].date), Zero)

RECURSIVE RelativeLoop(_, _, _, _)
RelativeLoop(pf, benchMap, i, acc) ==
    IF i > Len(pf) THEN acc
    ELSE RelativeLoop(pf, benchMap, i + 1,
             IF PairIncluded(pf, benchMap, i)
             THEN [portReturns |->
                       Append(acc.portReturns,
                              Sub(Div(pf[i].value, pf[i - 1].value), One)),
                   benchReturns |->
                       Append(acc.benchReturns,
                              Sub(Div(benchMap[pf[i].date], benchMap[pf[i - 1].date]), One))]
             ELSE acc)

NoReturns == [portReturns |-> <<>>, benchReturns |-> <<>>]

(* pairing by array position: portfolio[i] with benchmark[i] *)
AlignedReturnsPositional(pf, benchmark) ==
    LET m == IF Len(pf) < Len(benchmark) THEN Len(pf) ELSE Len(benchmark)
    IN  RelativeLoop(SubSeq(pf, 1, m),
                     [d \in {pf[i].date : i \in 1..m} |->
                         benchmark[CHOOSE i \in 1..m : pf[i].date = d].value],
                     2, NoReturns)

(* pairing each portfolio date the benchmark has with the previous such    *)
(* date, across the dates the benchmark lacks                              *)
AlignedReturnsSpanning(pf, benchmark) ==
    RelativeLoop(SelectSeq(pf, LAMBDA p : p.date \in DOMAIN BenchMap(benchmark)),
                 BenchMap(benchmark), 2, NoReturns)

(* the loop pushing the portfolio return before the benchmark's previous    *)
(* value is tested, and the benchmark return after                         *)
RECURSIVE RelativeLoopUnpaired(_, _, _, _)
RelativeLoopUnpaired(pf, benchMap, i, acc) ==
    IF i > Len(pf) THEN acc
    ELSE LET known == /\ Get(benchMap, pf[i].date) # Undefined
                      /\ Get(benchMap, pf[i - 1].date) # Undefined
                      /\ ~Le(pf[i - 1].value, Zero)
             port == IF known
                     THEN Append(acc.portReturns,
                                 Sub(Div(pf[i].value, pf[i - 1].value), One))
                     ELSE acc.portReturns
             bench == IF PairIncluded(pf, benchMap, i)
                      THEN Append(acc.benchReturns,
                                  Sub(Div(benchMap[pf[i].date], benchMap[pf[i - 1].date]), One))
                      ELSE acc.benchReturns
         IN  IF Len(port) >= Len(bench)
             THEN RelativeLoopUnpaired(pf, benchMap, i + 1,
                      [portReturns |-> port, benchReturns |-> bench])
             ELSE acc

AlignedReturnsUnpaired(pf, benchmark) ==
    RelativeLoopUnpaired(pf, BenchMap(benchmark), 2, NoReturns)

(* portReturns and benchReturns after the loop of computeRelativeMetrics *)
AlignedReturns(pf, benchmark) ==
    RelativeLoop(pf, BenchMap(benchmark), 2, NoReturns)

Devs(values) == [i \in 1..Len(values) |-> Sub(values[i], Mean(values))]
Products(x, y) == [i \in 1..Len(x) |-> Mul(x[i], y[i])]

(* correlation without the denom === 0 guard *)
correlationUnguarded(a, b) ==
    IF Len(a) # Len(b) \/ Len(a) = 0 THEN Null
    ELSE LET da == Devs(a)
             db == Devs(b)
         IN  Quot(Sum(Products(da, db)),
                  Sqrt(Mul(Sum(Products(da, da)), Sum(Products(db, db)))))

correlation(a, b) ==
    IF Len(a) # Len(b) \/ Len(a) = 0 THEN Null
    ELSE LET da == Devs(a)
             db == Devs(b)
             numerator == Sum(Products(da, db))
             denomA == Sum(Products(da, da))
             denomB == Sum(Products(db, db))
             denom == Sqrt(Mul(denomA, denomB))
         IN  IF IsZero(denom.sqrt) THEN Null ELSE Quot(numerator, denom)

betaCalc(a, b) ==
    IF Len(a) # Len(b) \/ Len(a) = 0 THEN Null
    ELSE LET da == Devs(a)
             db == Devs(b)
             cov == Sum(Products(da, db))
             varB == Sum(Products(db, db))
         IN  IF IsZero(varB) THEN Null ELSE Div(cov, varB)

computeRelativeMetrics(pf, benchmark) ==
    LET r == AlignedReturns(pf, benchmark)
    IN  IF Len(r.portReturns) = 0 \/ Len(r.portReturns) # Len(r.benchReturns)
        THEN [beta |-> Null, correlation |-> Null]
        ELSE [beta |-> betaCalc(r.portReturns, r.benchReturns),
              correlation |-> correlation(r.portReturns, r.benchReturns)]

(* { ...a, ...b } *)
Spread(a, b) ==
    [f \in (DOMAIN a) \cup (DOMAIN b) |-> IF f \in DOMAIN b THEN b[f] ELSE a[f]]

EmptyObject == [f \in {} |-> Null]

(* the metrics memo of PerformancePage *)
PageMetrics(fp, fb, selected) ==
    IF Len(fp) = 0 THEN emptyMetrics
    ELSE LET portfolioMetrics == computeMetrics(fp)
             \* benchmarkKey = selectedBenchmarks[0]; benchmarkSeries is
             \* undefined when there is no key or no filtered series under it
             hasBenchmarkKey == Len(selected) > 0
             hasBenchmarkSeries == hasBenchmarkKey /\ selected[1] \in DOMAIN fb
             benchmarkMetrics == IF hasBenchmarkSeries
                                 THEN computeRelativeMetrics(fp, fb[selected[1]])
                                 ELSE EmptyObject
         IN  Spread(portfolioMetrics, benchmarkMetrics)

(* the filteredPortfolio memo of PerformancePage *)
FilteredPortfolio(pl, bounds) ==
    IF pl = Null \/ bounds = Null THEN <<>>
    ELSE filterSeries(pl.portfolio, bounds.startDate, bounds.endDate)

(* the filteredBenchmarks memo of PerformancePage *)
FilteredBenchmarks(pl, bounds, selected) ==
    IF pl = Null \/ bounds = Null THEN EmptyObject
    ELSE LET keys == {selected[i] : i \in 1..Len(selected)}
                         \cap DOMAIN pl.benchmark_series
         IN  [b \in keys |->
                 filterSeries(pl.benchmark_series[b], bounds.startDate, bounds.endDate)]

(* the overlaySeries memo of PerformancePage *)
OverlaySeries(pl, bounds, overlays) ==
    IF pl = Null \/ bounds = Null THEN EmptyObject
    ELSE LET keys == {overlays[i] : i \in 1..Len(overlays)}
                         \cap DOMAIN pl.price_series
         IN  [sym \in keys |->
                 filterSeries(pl.price_series[sym], bounds.startDate, bounds.endDate)]

-----------------------------------------------------------------------------
(* Holdings performance *)

(* x ?? fallback *)
Coalesce(x, fallback) == IF x = Null \/ x = Undefined THEN fallback ELSE x

(* the loop of findPositionAt with posDate < target in place of <= *)
RECURSIVE FindPositionLoopStrict(_, _, _, _)
FindPositionLoopStrict(positions, target, i, current) ==
    IF i > Len(positions) THEN current
    ELSE IF parseDate(positions[i].date) < target
    THEN FindPositionLoopStrict(positions, target, i + 1, positions[i])
    ELSE current

findPositionAtStrict(positions, target) ==
    FindPositionLoopStrict(positions, target, 1, Null)

(* the loop of findPositionAt: it stops at the first snapshot dated after  *)
(* the target                                                              *)
RECURSIVE FindPositionLoop(_, _, _, _)
FindPositionLoop(positions, target, i, current) ==
    IF i > Len(positions) THEN current
    ELSE IF parseDate(positions[i].date) <= target
    THEN FindPositionLoop(positions, target, i + 1, positions[i])
    ELSE current

findPositionAt(positions, target) == FindPositionLoop(positions, target, 1, Null)

RECURSIVE PriceLoop(_, _, _, _)
PriceLoop(series, target, i, price) ==
    IF i > Len(series) THEN price
    ELSE IF parseDate(series[i].date) <= target
    THEN PriceLoop(series, target, i + 1, series[i].value)
    ELSE price

(* priceAt falling back on the first price of the series when no price is  *)
(* dated at or before the target                                           *)
priceAtOrFirst(series, target) ==
    IF Len(series) = 0 THEN Null
    ELSE Coalesce(PriceLoop(series, target, 1, Null), series[1].value)

(* priceAt of a series that is not undefined *)
priceAt(series, target) ==
    IF Len(series) = 0 THEN Null ELSE PriceLoop(series, target, 1, Null)

(* priceAt(payload.price_series[symbol], target): null when the payload    *)
(* has no series for the symbol                                            *)
PriceOf(price_series, symbol, target) ==
    IF symbol \in DOMAIN price_series
    THEN priceAt(price_series[symbol], target)
    ELSE Null

(* state?.shares[symbol] *)
SharesOf(state, symbol) ==
    IF state = Null THEN Undefined ELSE Get(state.shares, symbol)

(* gainPct without the startValue > 0 guard *)
GainPctUnguarded(gainAbs, startValue) == Div(gainAbs, startValue)

(* startValue > 0 ? gainAbs / startValue : null *)
GainPct(gainAbs, startValue) ==
    IF Gt(startValue, Zero) THEN Div(gainAbs, startValue) ELSE Null

(* startState?.shares[holding.symbol] ?? 0, positions being non-empty *)
StartShares(pl, holding, start) ==
    Coalesce(SharesOf(findPositionAt(pl.positions, start), holding.symbol), Zero)

(* endState?.shares[holding.symbol] ?? 0, positions being non-empty *)
EndShares(pl, holding, end) ==
    LET positions == pl.positions
        endState == Coalesce(findPositionAt(positions, end), positions[Len(positions)])
    IN  Coalesce(SharesOf(endState, holding.symbol), Zero)

(* priceAt(series, start) ?? 0 *)
StartPrice(pl, holding, start) ==
    Coalesce(PriceOf(pl.price_series, holding.symbol, start), Zero)

(* priceAt(series, end) ?? startPrice *)
EndPrice(pl, holding, start, end) ==
    Coalesce(PriceOf(pl.price_series, holding.symbol, end), StartPrice(pl, holding, start))

(* the row pushed for one holding, positions being non-empty *)
HoldingRow(pl, holding, start, end) ==
    LET startShares == StartShares(pl, holding, start)
        endShares == EndShares(pl, holding, end)
        startPrice == StartPrice(pl, holding, start)
        endPrice == EndPrice(pl, holding, start, end)
        startValue == Mul(startShares, startPrice)
        endValue == Mul(endShares, endPrice)
        gainAbs == Sub(endValue, startValue)
        gainPct == GainPct(gainAbs, startValue)
    IN  Spread(holding,
               [shares |-> endShares, current_value |-> endValue,
                gain_abs |-> gainAbs, gain_pct |-> gainPct])

(* results.sort in ascending order of current_value *)
RECURSIVE SortAscendingLoop(_, _, _)
SortAscendingLoop(rows, i, sorted) ==
    IF i > Len(rows) THEN sorted
    ELSE LET k == Cardinality({j \in 1..Len(sorted) :
                       Le(sorted[j].current_value, rows[i].current_value)})
         IN  SortAscendingLoop(rows, i + 1,
                 SubSeq(sorted, 1, k) \o <<rows[i]>> \o SubSeq(sorted, k + 1, Len(sorted)))

SortByCurrentValueAscending(rows) == SortAscendingLoop(rows, 1, <<>>)

(* each row in turn takes its place among the rows already sorted: after   *)
(* every row whose current_value is not smaller (the sort is stable)       *)
RECURSIVE SortLoop(_, _, _)
SortLoop(rows, i, sorted) ==
    IF i > Len(rows) THEN sorted
    ELSE LET k == Cardinality({j \in 1..Len(sorted) :
                       Ge(sorted[j].current_value, rows[i].current_value)})
         IN  SortLoop(rows, i + 1,
                 SubSeq(sorted, 1, k) \o <<rows[i]>> \o SubSeq(sorted, k + 1, Len(sorted)))

(* results.sort((a, b) => b.current_value - a.current_value) *)
SortByCurrentValue(rows) == SortLoop(rows, 1, <<>>)

computeHoldingPerformance(pl, start, end) ==
    IF Len(pl.positions) = 0 THEN <<>>
    ELSE SortByCurrentValue(
             [i \in 1..Len(pl.holdings) |-> HoldingRow(pl, pl.holdings[i], start, end)])

(* the holdingsView memo of PerformancePage *)
HoldingsView(pl, bounds) ==
    IF pl = Null \/ bounds = Null THEN <<>>
    ELSE computeHoldingPerformance(pl, bounds.startDate, bounds.endDate)

-----------------------------------------------------------------------------
(* The chart rows *)

(* x in place of x || 1 *)
OrItself(x) == x

(* x || 1 *)
OrOne(x) == IF IsZero(x) \/ IsNaN(x) THEN One ELSE x

(* series[0]?.value ?? 1 *)
FirstValueOrOne(series) == IF Len(series) = 0 THEN One ELSE series[1].value

(* lookupValue comparing with < in place of <= *)
RECURSIVE LookupLoopStrict(_, _, _, _)
LookupLoopStrict(series, target, i, price) ==
    IF i > Len(series) THEN price
    ELSE IF series[i].date < target
    THEN LookupLoopStrict(series, target, i + 1, series[i].value)
    ELSE price

lookupValueStrict(series, target) == LookupLoopStrict(series, target, 1, Null)

(* the loop of lookupValue; the dates are compared as strings *)
RECURSIVE LookupLoop(_, _, _, _)
LookupLoop(series, target, i, price) ==
    IF i > Len(series) THEN price
    ELSE IF series[i].date <= target
    THEN LookupLoop(series, target, i + 1, series[i].value)
    ELSE price

(* lookupValue returning 0 where it finds no value *)
lookupValueOrZero(series, target) == Coalesce(LookupLoop(series, target, 1, Null), Zero)

(* lookupValue of a series that is not undefined (every series it is given *)
(* is a value of benchLookup or overlayLookup under one of its own keys)   *)
lookupValue(series, target) == LookupLoop(series, target, 1, Null)

(* the ratio to the start in percent, 1 not subtracted *)
IndexedRatio(val, start) == Mul(Div(val, start), Num(100))

(* (val / start - 1) * 100 *)
Indexed(val, start) == Mul(Sub(Div(val, start), One), Num(100))

(* viewMode === "indexed" ? ((val / start - 1) * 100) : val *)
ChartValue(viewMode_, val, start) ==
    IF viewMode_ = "indexed" THEN Indexed(val, start) ELSE val

(* `Overlay-${key}` *)
OverlayKey(key) == "Overlay-" \o key

(* the keys a row gets from a lookup table: those with a value at the date *)
KeysAt(lookup, date) ==
    {key \in DOMAIN lookup : lookupValue(lookup[key], date) # Null}

(* the row of one portfolio point *)
ChartRow(p, baseStart, benchmarks, overlays, viewMode_) ==
    LET benchKeys == KeysAt(benchmarks, p.date)
        overlayKeys == KeysAt(overlays, p.date)
        head == [k \in {"date", "Portfolio"} |->
                    IF k = "date" THEN p.date
                    ELSE ChartValue(viewMode_, p.value, baseStart)]
        bench == [key \in benchKeys |->
                     ChartValue(viewMode_, lookupValue(benchmarks[key], p.date),
                                OrOne(FirstValueOrOne(benchmarks[key])))]
        over == [k \in {OverlayKey(key) : key \in overlayKeys} |->
                    LET key == CHOOSE key \in overlayKeys : OverlayKey(key) = k
                    IN  ChartValue(viewMode_, lookupValue(overlays[key], p.date),
                                   OrOne(FirstValueOrOne(overlays[key])))]
    IN  Spread(Spread(head, bench), over)

buildChartData(portfolio, benchmarks, overlays, viewMode_) ==
    IF Len(portfolio) = 0 THEN <<>>
    ELSE LET baseStart == OrOne(portfolio[1].value)
         IN  [i \in 1..Len(portfolio) |->
                 ChartRow(portfolio[i], baseStart, benchmarks, overlays, viewMode_)]

(* the chartData memo of PerformancePage *)
ChartData(pl, bounds, fp, fb, overlays, viewMode_) ==
    IF pl = Null \/ bounds = Null THEN <<>>
    ELSE buildChartData(fp, fb, overlays, viewMode_)

-----------------------------------------------------------------------------
(* The inputs drawn for the payload *)

(* the k-th smallest element of a set of integers *)
Kth(S, k) == CHOOSE i \in S : Cardinality({j \in S : j <= i}) = k

Values == {Num(i) : i \in 0..MaxValue}

Points == [date : Dates, value : Values]

(* sorted ascending by date, no duplicate dates *)
IsAscending(series) ==
    \A i \in 1..(Len(series) - 1) : series[i].date < series[i + 1].date

SeriesSet ==
    {s \in UNION {[1..k -> Points] : k \in 0..MaxLen} : IsAscending(s)}

DailySeries(first, values) ==
    [i \in 1..Len(values) |-> [date |-> first + i - 1, value |-> Num(values[i])]]

(* the scenario 100, 110, 99 on three consecutive days *)
ScenarioSeries == DailySeries(0, <<100, 110, 99>>)

(* 29 daily samples, spanning 28 days *)
Daily29Series == DailySeries(1, [i \in 1..29 |-> 1 + (i % 2)])

(* the benchmark buttons; the second benchmark of the page, IWM, is left    *)
(* out: the metrics memo reads selectedBenchmarks[0] only                  *)
BENCHMARKS == <<"SPY">>

(* payload.benchmark_series: no series for the benchmark, or one *)
BenchmarkRecords ==
    {EmptyObject} \cup {[b \in {"SPY"} |-> s] : s \in SeriesSet}

(* a payload without holdings *)
NoHoldings == [price_series |-> EmptyObject, positions |-> <<>>, holdings |-> <<>>]

(* the responses of the backend drawn for the metrics: every drawn         *)
(* portfolio with every drawn benchmark record, and the two scenarios, all *)
(* without holdings                                                        *)
Responses ==
    {Spread(r, NoHoldings) :
        r \in [portfolio : SeriesSet, benchmark_series : BenchmarkRecords]
              \cup [portfolio : {ScenarioSeries, Daily29Series},
                    benchmark_series : {EmptyObject}]}

WindowDates == {parseDate(d) : d \in Dates}

(* the values the rangeBounds memo takes: startDate and endDate follow     *)
(* payload.start_date, payload.end_date and the selected range, and any    *)
(* two window dates can result (startDate after endDate when the payload's *)
(* start_date is after its end_date)                                       *)
RangeBoundsSet == [startDate : WindowDates, endDate : WindowDates]

(* The inputs drawn for the holdings: two symbols; snapshots on the days   *)
(* after the first, so that a window can end before every snapshot; in a   *)
(* snapshot each symbol is absent or held in a quantity 1..MaxValue; the   *)
(* prices drawn are 1 and MaxValue                                         *)
SYMBOLS == {"AAPL", "MSFT"}

Holding(symbol) == [symbol |-> symbol, description |-> symbol]

HoldingLists == {<<Holding("AAPL")>>, <<Holding("AAPL"), Holding("MSFT")>>}

Quantities == {Num(q) : q \in 1..MaxValue}

ShareRecords == UNION {[held -> Quantities] : held \in SUBSET SYMBOLS}

SnapshotDates == {d \in Dates : \E e \in Dates : e < d}

(* at most MaxLen snapshots, sorted ascending by date, no duplicate dates *)
PositionsSet ==
    UNION {{[k \in 1..Cardinality(days) |->
                [date |-> Kth(days, k), shares |-> shares[Kth(days, k)]]] :
            shares \in [days -> ShareRecords]} :
           days \in {D \in SUBSET SnapshotDates : Cardinality(D) <= MaxLen}}

PriceSeriesSet ==
    {s \in SeriesSet : \A i \in 1..Len(s) : s[i].value \in {One, Num(MaxValue)}}

(* one price on the first day *)
FirstDayPrice == <<[date |-> 0, value |-> One]>>

(* payload.price_series: the second symbol has one price on the first day, *)
(* the first symbol has any drawn series or none                           *)
PriceRecords ==
    {[sym \in SYMBOLS |-> IF sym = "AAPL" THEN s ELSE FirstDayPrice] : s \in PriceSeriesSet}
    \cup {[sym \in {"MSFT"} |-> FirstDayPrice]}

HoldingsResponses ==
    [portfolio : {<<>>}, benchmark_series : {EmptyObject},
     price_series : PriceRecords, positions : PositionsSet, holdings : HoldingLists]

(* The inputs drawn for the chart: the portfolio values are 0 or MaxValue; *)
(* either the benchmark is any drawn record and the one holding has the    *)
(* rising prices, or the benchmark has the rising values and the holding   *)
(* has any series of values 0 or MaxValue; the holding is held from the    *)
(* second day on                                                           *)
TwoValuedSeries ==
    {s \in SeriesSet : \A i \in 1..Len(s) : s[i].value \in {Zero, Num(MaxValue)}}

RisingSeries ==
    <<[date |-> 0, value |-> One], [date |-> 1, value |-> Num(MaxValue)]>>

HeldFromSecondDay == <<[date |-> 1, shares |-> [s \in {"AAPL"} |-> Num(MaxValue)]]>>

ChartResponses ==
    [portfolio : TwoValuedSeries, benchmark_series : BenchmarkRecords,
     price_series : {[s \in {"AAPL"} |-> RisingSeries]},
     positions : {HeldFromSecondDay}, holdings : {<<Holding("AAPL")>>}]
    \cup
    [portfolio : TwoValuedSeries,
     benchmark_series : {[b \in {"SPY"} |-> RisingSeries]},
     price_series : {[s \in {"AAPL"} |-> series] : series \in TwoValuedSeries},
     positions : {HeldFromSecondDay}, holdings : {<<Holding("AAPL")>>}]

-----------------------------------------------------------------------------
(* The as-of lookups called on their own: findPositionAt, priceAt and the  *)
(* lookupValue of buildChartData, each applied to a drawn series and a     *)
(* drawn target                                                            *)

(* the points and snapshots drawn for the lookups, on any of the dates *)
LookupPoints == [date : Dates, value : {One, Num(MaxValue)}]

LookupSnapshots ==
    [date : Dates,
     shares : {[s \in {"AAPL"} |-> One], [s \in {"AAPL"} |-> Num(MaxValue)]}]

(* every series of at most MaxLen entries, sorted or not *)
SequencesOf(S) == UNION {[1..k -> S] : k \in 0..MaxLen}

NothingLookedUp == lookedUp = [fn |-> "none"]

(* findPositionAt(positions, target), target a Date *)
CallFindPositionAt ==
    /\ \E positions \in SequencesOf(LookupSnapshots), target \in WindowDates :
          lookedUp' = [fn |-> "findPositionAt", series |-> positions, target |-> target,
                       result |-> findPositionAt(positions, target)]
    /\ UNCHANGED offLookup

(* priceAt(series, target), target a Date *)
CallPriceAt ==
    /\ \E series \in SequencesOf(LookupPoints), target \in WindowDates :
          lookedUp' = [fn |-> "priceAt", series |-> series, target |-> target,
                       result |-> priceAt(series, target)]
    /\ UNCHANGED offLookup

(* lookupValue(series, target), target a date string *)
CallLookupValue ==
    /\ \E series \in SequencesOf(LookupPoints), target \in Dates :
          lookedUp' = [fn |-> "lookupValue", series |-> series, target |-> target,
                       result |-> lookupValue(series, target)]
    /\ UNCHANGED offLookup

-----------------------------------------------------------------------------
(* The route handler POST /api/ai/chat, which relays a chat request to the *)
(* backend.  A run of the handler is followed from the arrival of the      *)
(* request to the response it returns; the await of the backend call is    *)
(* the one point where it waits.                                           *)

(* a request body that is not valid JSON: req.json() rejects *)
InvalidJson == [invalid |-> TRUE]

(* the conversations drawn: 1..MaxMessages messages of either role *)
ChatMessages == [role : {"user", "assistant"}, content : {"hello"}]

Conversations == UNION {[1..k -> ChatMessages] : k \in 1..MaxMessages}

(* the bodies drawn: not JSON, the JSON null, an object without messages,  *)
(* empty messages, and the conversations                                   *)
RequestBodies ==
    {InvalidJson, Null, EmptyObject, [messages |-> <<>>]}
        \cup {[messages |-> m] : m \in Conversations}

(* the Cookie header of the request: absent, or the session cookie *)
Requests == [body : RequestBodies, cookie : {Null, [value |-> "session"]}]

(* !body?.messages?.length *)
NoMessages(body) ==
    \/ body = Null
    \/ "messages" \notin DOMAIN body
    \/ Len(body.messages) = 0

(* a backend body that is not JSON: backendRes.json() rejects *)
NotJson == [notJson |-> TRUE]

(* what the backend answers: a status with a body; 204 No Content comes    *)
(* without a body                                                          *)
BackendResponses ==
    [status : {200, 401, 500},
     body : {NotJson, Null, [reply |-> "hello"], [detail |-> "error"]}]
        \cup [status : {204}, body : {NotJson}]

(* the fetch rejected (the backend cannot be reached) *)
Threw == [threw |-> TRUE]

(* backendRes.json().catch(() => null) *)
JsonOrNull(body) == IF body = NotJson THEN Null ELSE body

(* the response of the catch block: Assistant call failed (its detail, the *)
(* message of the error, is left out)                                      *)
AssistantCallFailed == [status |-> 500, body |-> [error |-> "Assistant call failed"]]

(* the statuses a Response may not carry a body with: constructing a       *)
(* Response with a body and one of them throws a TypeError                 *)
NullBodyStatuses == {101, 204, 205, 304}

(* return NextResponse.json(responseBody ?? {}, { status }) inside the try *)
(* block: Response.json throws for a null body status (and for a status    *)
(* outside 200..599), and the catch block answers in its place             *)
RelayOrFail(responseBody, status) ==
    IF status \in NullBodyStatuses \/ status \notin 200..599
    THEN AssistantCallFailed
    ELSE [status |-> status, body |-> Coalesce(responseBody, EmptyObject)]

ChatWaiting ==
    /\ req = Null
    /\ handlerPc = "waiting"
    /\ backendRequests = <<>>
    /\ backendRes = Null
    /\ answer = Null

(* POST, up to its return or to the await of the backend call *)
POST ==
    /\ handlerPc = "waiting"
    /\ \E r \in Requests :
          /\ req' = r
          /\ IF r.body = InvalidJson
             THEN /\ answer' = [status |-> 400, body |-> [error |-> "Invalid JSON body."]]
                  /\ handlerPc' = "returned"
                  /\ UNCHANGED backendRequests
             ELSE IF NoMessages(r.body)
             THEN /\ answer' = [status |-> 400, body |-> [error |-> "messages are required"]]
                  /\ handlerPc' = "returned"
                  /\ UNCHANGED backendRequests
             ELSE /\ backendRequests' = Append(backendRequests, r)
                  /\ handlerPc' = "fetching"
                  /\ UNCHANGED answer
    /\ UNCHANGED backendRes
    /\ UNCHANGED offChat

(* the backend call resolves with a response: POST returns what            *)
(* NextResponse.json makes of its status and body                          *)
BackendResponds ==
    /\ handlerPc = "fetching"
    /\ \E res \in BackendResponses :
          /\ backendRes' = res
          /\ answer' = RelayOrFail(JsonOrNull(res.body), res.status)
    /\ handlerPc' = "returned"
    /\ UNCHANGED <<req, backendRequests>>
    /\ UNCHANGED offChat

(* the backend call rejects: the catch block answers 500 *)
BackendCallThrows ==
    /\ handlerPc = "fetching"
    /\ backendRes' = Threw
    /\ answer' = AssistantCallFailed
    /\ handlerPc' = "returned"
    /\ UNCHANGED <<req, backendRequests>>
    /\ UNCHANGED offChat

-----------------------------------------------------------------------------
(* The dashboard pages: PerformancePage, OptimizationPage, RiskPage and    *)
(* UploadPage.  Each is followed from its first render.  An effect is run  *)
(* by the step that mounts the page or changes one of its dependencies, in *)
(* the order the effects are declared; an await is the end of a step, and  *)
(* the settling of the awaited request is the next step of that handler.   *)
(* The state a page keeps beside its session check is a record whose       *)
(* fields are the page's useState (and useRef) names; the fields           *)
(* runPending, analyzePending and latestPending count the requests of a    *)
(* kind that are outstanding, methodsPending lists the selectedMethod each *)
(* outstanding loadMethods call closed over, and automaticFetches counts   *)
(* the calls of fetchLatestRisk made by the effect of RiskPage.  After     *)
(* router.replace("/signin") the page is left: none of its handlers runs   *)
(* and a request still outstanding settles without effect.                 *)

Pages == {"performance", "optimization", "risk", "upload"}

(* setDataError, setAnalysisError, ...: an error message *)
ErrorOf(message) == [message |-> message]

OptimizationFirstRender ==
    [methods |-> <<>>, methodsStatus |-> "idle", selectedMethod |-> "risk_parity",
     result |-> Null, runStatus |-> "idle", runError |-> Null,
     methodsPending |-> <<>>, runPending |-> 0]

RiskFirstRender ==
    [importBatchId |-> "", localBatchReady |-> FALSE, initialLatestFetched |-> FALSE,
     analysisMode |-> "csv_only", analysisStatus |-> "idle", analysisError |-> Null,
     analysisResult |-> Null, latestRiskStatus |-> "idle", latestRiskError |-> Null,
     analyzePending |-> 0, latestPending |-> 0, automaticFetches |-> 0]

UploadFirstRender ==
    [latestUpload |-> Null, latestStatus |-> "idle", latestError |-> Null,
     latestPending |-> 0]

(* the four pages at their first render, before any effect has run *)
FirstRender ==
    /\ authStatus = [p \in Pages |-> "checking"]
    /\ meRequest = [p \in Pages |-> "unsent"]
    /\ route = [p \in Pages |-> "page"]
    /\ requested = [p \in Pages |-> {}]
    /\ optimization = OptimizationFirstRender
    /\ risk = RiskFirstRender
    /\ upload = UploadFirstRender

(* PerformancePage with its session verified and loadPerformance sent, the *)
(* other pages at their first render                                       *)
PerformanceVerified ==
    /\ authStatus = [p \in Pages |-> IF p = "performance" THEN "ready" ELSE "checking"]
    /\ meRequest = [p \in Pages |-> IF p = "performance" THEN "ok" ELSE "unsent"]
    /\ route = [p \in Pages |-> "page"]
    /\ requested =
           [p \in Pages |->
               IF p = "performance" THEN {"/api/performance/portfolio"} ELSE {}]
    /\ optimization = OptimizationFirstRender
    /\ risk = RiskFirstRender
    /\ upload = UploadFirstRender

(* what the handlers of each page leave alone *)
pageVarsButDataStatus ==
    <<response, payload, selectedBenchmarks, viewMode, overlaySymbols, rangeBounds,
      filteredPortfolio, filteredBenchmarks, overlaySeries, metrics>>

offPerformance == <<pageVarsButDataStatus, optimization, risk, upload, offDashboard>>

offOptimization == <<pageVars, risk, upload, offDashboard>>

offRisk == <<pageVars, optimization, upload, offDashboard>>

offUpload == <<pageVars, optimization, risk, offDashboard>>

(* a gate that lets the data effects run in any authStatus *)
AuthAny(status) == status \in {"checking", "ready", "error"}

(* if (authStatus === "ready"), the gate of the data effects *)
AuthReady(status) == status = "ready"

(* the page is shown and verifySession awaits GET /me *)
AwaitingMe(p) == route[p] = "page" /\ meRequest[p] = "pending"

(* the effect that runs verifySession: GET /me is sent *)
VerifySessionSent(p) ==
    /\ route[p] = "page"
    /\ meRequest[p] = "unsent"
    /\ meRequest' = [meRequest EXCEPT ![p] = "pending"]

(* GET /me returned OK with a JSON body: setUser(data), setAuthStatus("ready") *)
VerifySessionReady(p) ==
    /\ AwaitingMe(p)
    /\ meRequest' = [meRequest EXCEPT ![p] = "ok"]
    /\ authStatus' = [authStatus EXCEPT ![p] = "ready"]

(* the request of a page's data is recorded *)
Requested(p, path) == requested' = [requested EXCEPT ![p] = @ \cup {path}]

(* GET /me returned a response that is not OK: router.replace("/signin"),  *)
(* return; the same code on the four pages                                 *)
VerifySessionNotOk ==
    /\ \E p \in Pages :
          /\ AwaitingMe(p)
          /\ meRequest' = [meRequest EXCEPT ![p] = "notOk"]
          /\ route' = [route EXCEPT ![p] = "/signin"]
    /\ UNCHANGED <<authStatus, requested, pageVars, optimization, risk, upload,
                   offDashboard>>

(* the fetch of /me rejected, or it returned OK with a body that is not    *)
(* JSON: the catch block sets authStatus to "error"; the same code on the  *)
(* four pages (the data effects run again and find authStatus not ready)   *)
VerifySessionError ==
    /\ \E p \in Pages, outcome \in {"rejected", "okNotJson"} :
          /\ AwaitingMe(p)
          /\ meRequest' = [meRequest EXCEPT ![p] = outcome]
          /\ authStatus' = [authStatus EXCEPT ![p] = "error"]
    /\ UNCHANGED <<route, requested, pageVars, optimization, risk, upload,
                   offDashboard>>

(* PerformancePage: the effect of loadPerformance, run at mount and when   *)
(* authStatus changes: setDataStatus("loading"), setDataError(null) and    *)
(* the request                                                             *)
LoadPerformanceEffect(status) ==
    IF AuthReady(status)
    THEN /\ dataStatus' = "loading"
         /\ Requested("performance", "/api/performance/portfolio")
    ELSE UNCHANGED <<dataStatus, requested>>

PerformanceMount ==
    /\ VerifySessionSent("performance")
    /\ LoadPerformanceEffect(authStatus["performance"])
    /\ UNCHANGED <<authStatus, route>>
    /\ UNCHANGED offPerformance

PerformanceVerifySessionOk ==
    /\ VerifySessionReady("performance")
    /\ LoadPerformanceEffect(authStatus'["performance"])
    /\ UNCHANGED route
    /\ UNCHANGED offPerformance

(* OptimizationPage: loadMethods up to its await *)
LoadMethodsSent(o) ==
    [o EXCEPT !.methodsStatus = "loading",
              !.methodsPending = Append(@, o.selectedMethod)]

(* OptimizationPage: the effect of loadMethods, run at mount and when      *)
(* authStatus or selectedMethod changes                                    *)
LoadMethodsEffect(o, status) ==
    IF AuthReady(status)
    THEN /\ optimization' = LoadMethodsSent(o)
         /\ Requested("optimization", "/api/optimize/methods")
    ELSE /\ optimization' = o
         /\ UNCHANGED requested

OptimizationMount ==
    /\ VerifySessionSent("optimization")
    /\ LoadMethodsEffect(optimization, authStatus["optimization"])
    /\ UNCHANGED <<authStatus, route>>
    /\ UNCHANGED offOptimization

OptimizationVerifySessionOk ==
    /\ VerifySessionReady("optimization")
    /\ LoadMethodsEffect(optimization, authStatus'["optimization"])
    /\ UNCHANGED route
    /\ UNCHANGED offOptimization

(* RiskPage: what localStorage holds under ww_last_batch_id, "" for        *)
(* nothing (getItem returns null)                                          *)
StoredBatchIds == {"", "batch-1"}

(* RiskPage: fetchLatestRisk up to its await *)
FetchLatestRiskSent(r) ==
    [r EXCEPT !.latestRiskStatus = "loading", !.latestRiskError = Null,
              !.latestPending = @ + 1]

(* the effect fetching whenever the session is ready and the batch id read *)
LatestFetchDueEveryTime(status, localBatchReady, initialLatestFetched) ==
    AuthReady(status) /\ localBatchReady

(* RiskPage: the effect does not return early:                             *)
(* !(authStatus !== "ready" || !localBatchReady || initialLatestFetched.current) *)
LatestFetchDue(status, localBatchReady, initialLatestFetched) ==
    AuthReady(status) /\ localBatchReady /\ ~initialLatestFetched

(* RiskPage: the effect of the automatic fetch, run at mount and when      *)
(* authStatus, localBatchReady or fetchLatestRisk (that is, importBatchId) *)
(* changes                                                                 *)
LatestFetchEffect(r, status) ==
    IF LatestFetchDue(status, r.localBatchReady, r.initialLatestFetched)
    THEN /\ risk' = [FetchLatestRiskSent(r) EXCEPT !.initialLatestFetched = TRUE,
                                                   !.automaticFetches = @ + 1]
         /\ Requested("risk", "/api/risk/latest")
    ELSE /\ risk' = r
         /\ UNCHANGED requested

(* RiskPage mounts: the first effect reads the stored batch id and sets    *)
(* localBatchReady, the second sends GET /me, the third finds authStatus   *)
(* not ready; the render that follows the first effect runs the third      *)
(* again, localBatchReady (and importBatchId) having changed               *)
RiskMount ==
    /\ VerifySessionSent("risk")
    /\ \E storedBatch \in StoredBatchIds :
          LET read == [risk EXCEPT !.importBatchId =
                                       IF storedBatch # "" THEN storedBatch ELSE @,
                                   !.localBatchReady = TRUE]
          IN  IF LatestFetchDue(authStatus["risk"], risk.localBatchReady,
                                risk.initialLatestFetched)
              THEN /\ risk' = [FetchLatestRiskSent(read)
                                   EXCEPT !.initialLatestFetched = TRUE,
                                          !.automaticFetches = @ + 1]
                   /\ Requested("risk", "/api/risk/latest")
              ELSE LatestFetchEffect(read, authStatus["risk"])
    /\ UNCHANGED <<authStatus, route>>
    /\ UNCHANGED offRisk

RiskVerifySessionOk ==
    /\ VerifySessionReady("risk")
    /\ LatestFetchEffect(risk, authStatus'["risk"])
    /\ UNCHANGED route
    /\ UNCHANGED offRisk

(* UploadPage: loadLatestUpload up to its await *)
LoadLatestUploadSent(u) ==
    [u EXCEPT !.latestError = Null, !.latestStatus = "loading", !.latestPending = @ + 1]

UploadMount ==
    /\ VerifySessionSent("upload")
    /\ UNCHANGED <<authStatus, route, requested, upload>>
    /\ UNCHANGED offUpload

(* UploadPage: verifySession calls loadLatestUpload itself, after          *)
(* setAuthStatus("ready")                                                  *)
UploadVerifySessionOk ==
    /\ VerifySessionReady("upload")
    /\ upload' = LoadLatestUploadSent(upload)
    /\ Requested("upload", "/portfolio-uploads/latest")
    /\ UNCHANGED route
    /\ UNCHANGED offUpload

-----------------------------------------------------------------------------
(* OptimizationPage after its session check *)

(* the page shows its controls: it was not left for /signin and authStatus *)
(* is ready                                                                *)
PageReady(p) == route[p] = "page" /\ authStatus[p] = "ready"

(* the keys of the methods drawn, and the catalogs the backend may answer  *)
(* loadMethods with                                                        *)
MethodKeys == {"risk_parity", "hrp"}

Catalogs == {<<>>, <<"hrp">>, <<"risk_parity", "hrp">>}

(* what the backend answers a run with *)
OptimizationResponses == {[method |-> key] : key \in MethodKeys}

(* a sequence without its i-th element *)
Without(seq, i) == [j \in 1..(Len(seq) - 1) |-> IF j < i THEN seq[j] ELSE seq[j + 1]]

(* the method select and the goal buttons: setSelectedMethod; the effect   *)
(* of loadMethods runs again for the new selectedMethod                    *)
SelectMethod ==
    /\ PageReady("optimization")
    /\ Len(optimization.methodsPending) < MaxOutstanding
    /\ \E key \in MethodKeys :
          /\ key # optimization.selectedMethod
          /\ LoadMethodsEffect([optimization EXCEPT !.selectedMethod = key],
                               authStatus["optimization"])
    /\ UNCHANGED <<authStatus, meRequest, route>>
    /\ UNCHANGED offOptimization

(* loadMethods, the response is OK: setMethods; the first method of the    *)
(* catalog is selected when the catalog lacks the selectedMethod the call  *)
(* closed over; setMethodsStatus("idle"); a changed selectedMethod runs    *)
(* the effect again                                                        *)
LoadMethodsOk ==
    /\ route["optimization"] = "page"
    /\ \E i \in 1..Len(optimization.methodsPending), methods \in Catalogs :
          LET selectedMethod == optimization.methodsPending[i]
              found == \E j \in 1..Len(methods) : methods[j] = selectedMethod
              loaded == [optimization EXCEPT
                            !.methods = methods,
                            !.selectedMethod =
                                IF ~found /\ Len(methods) > 0 THEN methods[1] ELSE @,
                            !.methodsStatus = "idle",
                            !.methodsPending = Without(@, i)]
          IN  IF loaded.selectedMethod # optimization.selectedMethod
              THEN LoadMethodsEffect(loaded, authStatus["optimization"])
              ELSE optimization' = loaded /\ UNCHANGED requested
    /\ UNCHANGED <<authStatus, meRequest, route>>
    /\ UNCHANGED offOptimization

(* loadMethods, the response is not OK or the request rejects *)
LoadMethodsFails ==
    /\ route["optimization"] = "page"
    /\ \E i \in 1..Len(optimization.methodsPending) :
          optimization' = [optimization EXCEPT !.methodsStatus = "error",
                                               !.methodsPending = Without(@, i)]
    /\ UNCHANGED sessionVars
    /\ UNCHANGED offOptimization

(* the Run button enabled whatever the runStatus *)
RunEnabledAlways(runStatus) == runStatus \in {"idle", "running", "error"}

(* the Run button: disabled={runStatus === "running"} *)
RunEnabled(runStatus) == runStatus # "running"

(* handleRun up to its await: setRunStatus("running"), setRunError(null),  *)
(* setResult(null), then the request                                       *)
HandleRun ==
    /\ PageReady("optimization")
    /\ RunEnabled(optimization.runStatus)
    /\ optimization.runPending < MaxOutstanding
    /\ optimization' = [optimization EXCEPT !.runStatus = "running", !.runError = Null,
                                            !.result = Null, !.runPending = @ + 1]
    /\ Requested("optimization", "/api/optimize/run")
    /\ UNCHANGED <<authStatus, meRequest, route>>
    /\ UNCHANGED offOptimization

(* the run request is outstanding on the page *)
RunOutstanding == route["optimization"] = "page" /\ optimization.runPending > 0

(* handleRun, the response is OK: setResult(data), setRunStatus("idle") *)
RunOk ==
    /\ RunOutstanding
    /\ \E data \in OptimizationResponses :
          optimization' = [optimization EXCEPT !.result = data, !.runStatus = "idle",
                                               !.runPending = @ - 1]
    /\ UNCHANGED sessionVars
    /\ UNCHANGED offOptimization

(* handleRun, the response is 401: router.replace("/signin"), return *)
RunUnauthorized ==
    /\ RunOutstanding
    /\ optimization' = [optimization EXCEPT !.runPending = @ - 1]
    /\ route' = [route EXCEPT !["optimization"] = "/signin"]
    /\ UNCHANGED <<authStatus, meRequest, requested>>
    /\ UNCHANGED offOptimization

(* handleRun, the response is not OK or the request rejects: the catch     *)
(* block sets runStatus to "error" and runError to a message               *)
RunFails ==
    /\ RunOutstanding
    /\ \E message \in {"Optimization failed. Try again.", "Failed to fetch"} :
          optimization' = [optimization EXCEPT !.runStatus = "error",
                                               !.runError = ErrorOf(message),
                                               !.runPending = @ - 1]
    /\ UNCHANGED sessionVars
    /\ UNCHANGED offOptimization

-----------------------------------------------------------------------------
(* RiskPage after its session check *)

(* what may be typed into the batch id input *)
BatchIds == StoredBatchIds \cup {"batch-2"}

(* what POST /api/risk/analyze answers, and what fetchLatestRisk makes of  *)
(* the answer of GET /api/risk/latest                                      *)
AnalyzeResponses == {[analysis_id |-> "analysis-2", status |-> "succeeded"]}

LatestRiskResponses == {[analysis_id |-> "analysis-1", status |-> "succeeded"],
                        [analysis_id |-> "", status |-> "succeeded"]}

(* the batch id input: setImportBatchId(e.target.value); fetchLatestRisk   *)
(* is made anew for the new importBatchId, so the effect of the automatic  *)
(* fetch runs again                                                        *)
SetImportBatchId ==
    /\ PageReady("risk")
    /\ \E value \in BatchIds :
          /\ value # risk.importBatchId
          /\ LatestFetchEffect([risk EXCEPT !.importBatchId = value], authStatus["risk"])
    /\ UNCHANGED <<authStatus, meRequest, route>>
    /\ UNCHANGED offRisk

(* the mode buttons: setAnalysisMode(mode) *)
SetAnalysisMode ==
    /\ PageReady("risk")
    /\ \E mode \in {"csv_only", "enriched"} :
          /\ mode # risk.analysisMode
          /\ risk' = [risk EXCEPT !.analysisMode = mode]
    /\ UNCHANGED sessionVars
    /\ UNCHANGED offRisk

(* the Run analysis button: disabled={analysisStatus === "running"} *)
AnalyzeEnabled(analysisStatus) == analysisStatus # "running"

(* the Fetch latest button: disabled={latestRiskStatus === "loading"} *)
FetchEnabled(latestRiskStatus) == latestRiskStatus # "loading"

(* handleAnalyze up to its await: without a batch id it sets analysisError *)
(* and returns; otherwise setAnalysisError(null),                          *)
(* setAnalysisStatus("running"), setAnalysisResult(null), then the request *)
HandleAnalyze ==
    /\ PageReady("risk")
    /\ AnalyzeEnabled(risk.analysisStatus)
    /\ risk.analyzePending < MaxOutstanding
    /\ IF risk.importBatchId = ""
       THEN /\ risk' = [risk EXCEPT !.analysisError = ErrorOf(
                           "Batch ID is required to run analysis. Upload a CSV first.")]
            /\ UNCHANGED requested
       ELSE /\ risk' = [risk EXCEPT !.analysisError = Null, !.analysisStatus = "running",
                                    !.analysisResult = Null, !.analyzePending = @ + 1]
            /\ Requested("risk", "/api/risk/analyze")
    /\ UNCHANGED <<authStatus, meRequest, route>>
    /\ UNCHANGED offRisk

(* a request of handleAnalyze is outstanding on the page *)
AnalyzeOutstanding == route["risk"] = "page" /\ risk.analyzePending > 0

(* handleAnalyze, the response is OK: setAnalysisResult(data),             *)
(* setAnalysisStatus("success")                                            *)
AnalyzeOk ==
    /\ AnalyzeOutstanding
    /\ \E data \in AnalyzeResponses :
          risk' = [risk EXCEPT !.analysisResult = data, !.analysisStatus = "success",
                               !.analyzePending = @ - 1]
    /\ UNCHANGED sessionVars
    /\ UNCHANGED offRisk

(* handleAnalyze, the response is 401: router.replace("/signin"), return *)
AnalyzeUnauthorized ==
    /\ AnalyzeOutstanding
    /\ risk' = [risk EXCEPT !.analyzePending = @ - 1]
    /\ route' = [route EXCEPT !["risk"] = "/signin"]
    /\ UNCHANGED <<authStatus, meRequest, requested>>
    /\ UNCHANGED offRisk

(* handleAnalyze, the response is not OK or the request rejects: the catch *)
(* block sets analysisStatus to "error" and analysisError to a message     *)
AnalyzeFails ==
    /\ AnalyzeOutstanding
    /\ \E message \in {"Risk analysis failed.", "Failed to fetch"} :
          risk' = [risk EXCEPT !.analysisStatus = "error",
                               !.analysisError = ErrorOf(message),
                               !.analyzePending = @ - 1]
    /\ UNCHANGED sessionVars
    /\ UNCHANGED offRisk

(* the Fetch latest button: fetchLatestRisk up to its await *)
FetchLatestClick ==
    /\ PageReady("risk")
    /\ FetchEnabled(risk.latestRiskStatus)
    /\ risk.latestPending < MaxOutstanding
    /\ risk' = FetchLatestRiskSent(risk)
    /\ Requested("risk", "/api/risk/latest")
    /\ UNCHANGED <<authStatus, meRequest, route>>
    /\ UNCHANGED offRisk

(* a request of fetchLatestRisk is outstanding on the page *)
LatestOutstanding == route["risk"] = "page" /\ risk.latestPending > 0

(* fetchLatestRisk, the response is OK: setAnalysisResult({...}),          *)
(* setAnalysisStatus("success"), setAnalysisError(null),                   *)
(* setLatestRiskStatus("idle")                                             *)
LatestOk ==
    /\ LatestOutstanding
    /\ \E data \in LatestRiskResponses :
          risk' = [risk EXCEPT !.analysisResult = data, !.analysisStatus = "success",
                               !.analysisError = Null, !.latestRiskStatus = "idle",
                               !.latestPending = @ - 1]
    /\ UNCHANGED sessionVars
    /\ UNCHANGED offRisk

(* fetchLatestRisk, the response is 401: router.replace("/signin"), return *)
LatestUnauthorized ==
    /\ LatestOutstanding
    /\ risk' = [risk EXCEPT !.latestPending = @ - 1]
    /\ route' = [route EXCEPT !["risk"] = "/signin"]
    /\ UNCHANGED <<authStatus, meRequest, requested>>
    /\ UNCHANGED offRisk

(* fetchLatestRisk, the response is not OK or the request rejects: the     *)
(* catch block sets latestRiskStatus to "error" and latestRiskError        *)
LatestFails ==
    /\ LatestOutstanding
    /\ \E message \in {"Failed to load analysis.", "Failed to fetch"} :
          risk' = [risk EXCEPT !.latestRiskStatus = "error",
                               !.latestRiskError = ErrorOf(message),
                               !.latestPending = @ - 1]
    /\ UNCHANGED sessionVars
    /\ UNCHANGED offRisk

-----------------------------------------------------------------------------
(* The assistant widget (WealthWiseAssistant).  Its state is a record      *)
(* whose fields are the component's useState names; the field requests     *)
(* holds the chat requests that are outstanding, each with what its        *)
(* handleSend call closed over: whether it is the request that ends a      *)
(* survey, and the message list its reply will be appended to.  The        *)
(* position and the hover rectangle of the widget (dockSide, hoverRect)    *)
(* and the texts sent to the backend are left out.                         *)

SURVEY_QUESTIONS == <<"goal", "trading", "shorting", "positions">>

AssistantSays(content) == [role |-> "assistant", content |-> content]

UserSays(content) == [role |-> "user", content |-> content]

(* the first message of a fresh widget, of a cleared chat, and the         *)
(* acknowledgement that follows the last survey answer                     *)
Welcome == AssistantSays("Hi, I'm the WealthWise assistant.")

NewChatStarted == AssistantSays("New chat started.")

Thanks == AssistantSays("Thanks. I'll choose the best optimizer for you.")

(* `Question ${k} of ${SURVEY_QUESTIONS.length}: ${SURVEY_QUESTIONS[k - 1]}` *)
Question(k) ==
    AssistantSays("Question " \o ToString(k) \o " of "
                  \o ToString(Len(SURVEY_QUESTIONS)) \o ": " \o SURVEY_QUESTIONS[k])

(* what the user types: nothing, white space, or a text *)
Inputs == {"", " ", "a"}

(* input.trim() *)
Trim(input) == IF input = " " THEN "" ELSE input

(* the replies of the assistant backend *)
Reply == AssistantSays("reply")

(* the element the picker resolves a click to *)
SelectionPayload == [tag |-> "div"]

(* the widget after its mount: open on a dashboard route, with the welcome *)
(* message or the conversation restored from localStorage                  *)
AssistantMounted ==
    [isOpen : BOOLEAN, pickerActive : {FALSE}, selection : {Null},
     surveyMode : {FALSE}, surveyStep : {0}, surveyAnswers : {<<>>},
     messages : {<<Welcome>>, <<Welcome, UserSays("a"), Reply>>},
     input : {""}, sending : {FALSE}, error : {Null}, requests : {{}}]

(* the widget while another component is observed *)
AssistantUntouched ==
    assistant = [isOpen |-> FALSE, pickerActive |-> FALSE, selection |-> Null,
                 surveyMode |-> FALSE, surveyStep |-> 0, surveyAnswers |-> <<>>,
                 messages |-> <<Welcome>>, input |-> "", sending |-> FALSE,
                 error |-> Null, requests |-> {}]

(* the pathname changes: the effect opens the panel on a dashboard route *)
Navigate ==
    /\ \E isDashboardRoute \in BOOLEAN :
          assistant' = [assistant EXCEPT !.isOpen = IF isDashboardRoute THEN TRUE ELSE @]
    /\ UNCHANGED offAssistant

(* handleLaunch, the listener of the ww-assistant-open event; detail.prompt *)
(* replaces the first question when it is given                            *)
handleLaunch(a, mode, prompt) ==
    LET opened == [a EXCEPT !.isOpen = TRUE, !.pickerActive = FALSE]
        kickoff == IF prompt # "" THEN AssistantSays(prompt) ELSE Question(1)
    IN  IF mode = "survey"
        THEN [opened EXCEPT !.surveyMode = TRUE, !.surveyStep = 0,
                            !.surveyAnswers = <<>>, !.messages = <<kickoff>>,
                            !.selection = Null, !.input = ""]
        ELSE [opened EXCEPT !.surveyMode = FALSE, !.surveyStep = 0,
                            !.surveyAnswers = <<>>]

HandleLaunch ==
    /\ \E mode \in {"survey", "chat"}, prompt \in {"", "Let's find your optimizer."} :
          assistant' = handleLaunch(assistant, mode, prompt)
    /\ UNCHANGED offAssistant

(* toggleOpen that leaves the picker as it is *)
toggleOpenOnly(a) == [a EXCEPT !.isOpen = ~@]

(* toggleOpen: setIsOpen((prev) => !prev), setPickerActive(false) *)
toggleOpen(a) == [a EXCEPT !.isOpen = ~@, !.pickerActive = FALSE]

(* the launcher button, and the close button of the panel *)
ToggleOpen ==
    /\ assistant' = toggleOpen(assistant)
    /\ UNCHANGED offAssistant

(* togglePicker: setPickerActive((prev) => !prev), setIsOpen(true) *)
togglePicker(a) == [a EXCEPT !.pickerActive = ~@, !.isOpen = TRUE]

(* the picker button of the panel *)
TogglePicker ==
    /\ assistant.isOpen
    /\ assistant' = togglePicker(assistant)
    /\ UNCHANGED offAssistant

(* handleClick, listening while the picker is active, for a click outside  *)
(* the assistant: the element resolved, if any, becomes the selection      *)
PickerClick ==
    /\ assistant.pickerActive
    /\ \E resolved \in BOOLEAN :
          assistant' = [assistant EXCEPT
                           !.selection = IF resolved THEN SelectionPayload ELSE @,
                           !.pickerActive = FALSE]
    /\ UNCHANGED offAssistant

(* handleKey, listening while the picker is active: Escape *)
PickerEscape ==
    /\ assistant.pickerActive
    /\ assistant' = [assistant EXCEPT !.pickerActive = FALSE]
    /\ UNCHANGED offAssistant

(* the clear button of the selection chip *)
ClearSelection ==
    /\ assistant.isOpen
    /\ assistant.selection # Null
    /\ assistant' = [assistant EXCEPT !.selection = Null]
    /\ UNCHANGED offAssistant

(* the textarea of the panel *)
SetInput ==
    /\ assistant.isOpen
    /\ \E value \in Inputs : assistant' = [assistant EXCEPT !.input = value]
    /\ UNCHANGED offAssistant

(* handleSend returning early for a blank input only *)
SendRefusedWhenBlank(trimmed, sending) == trimmed = ""

(* if (!trimmed || sending) return *)
SendRefused(trimmed, sending) == trimmed = "" \/ sending

(* answers[surveyStep] = trimmed, on a copy of surveyAnswers *)
AnswerAt(answers, surveyStep, trimmed) ==
    [i \in 1..(IF surveyStep + 1 > Len(answers) THEN surveyStep + 1 ELSE Len(answers)) |->
        IF i = surveyStep + 1 THEN trimmed
        ELSE IF i <= Len(answers) THEN answers[i] ELSE ""]

(* handleSend up to its return or to the await of the chat request *)
handleSend(a) ==
    LET trimmed == Trim(a.input)
        nextMessages == Append(a.messages, UserSays(trimmed))
        nextStep == a.surveyStep + 1
        pendingMessages == Append(nextMessages, Thanks)
    IN  IF SendRefused(trimmed, a.sending) THEN a
        ELSE IF a.surveyMode /\ a.surveyStep < Len(SURVEY_QUESTIONS)
        THEN IF nextStep < Len(SURVEY_QUESTIONS)
             THEN [a EXCEPT !.input = "", !.error = Null, !.sending = FALSE,
                            !.surveyAnswers = AnswerAt(@, a.surveyStep, trimmed),
                            !.surveyStep = nextStep,
                            !.messages = Append(nextMessages, Question(nextStep + 1))]
             ELSE [a EXCEPT !.input = "", !.error = Null, !.sending = TRUE,
                            !.surveyAnswers = AnswerAt(@, a.surveyStep, trimmed),
                            !.surveyStep = nextStep,
                            !.messages = pendingMessages,
                            !.requests = @ \cup {[survey |-> TRUE,
                                                  base |-> pendingMessages]}]
        ELSE [a EXCEPT !.input = "", !.error = Null, !.sending = TRUE,
                       !.messages = nextMessages,
                       !.requests = @ \cup {[survey |-> FALSE, base |-> nextMessages]}]

(* the send button (disabled while sending) and the Enter key of the       *)
(* textarea                                                                *)
HandleSend ==
    /\ assistant.isOpen
    /\ Len(assistant.messages) < LongestChat
    /\ assistant' = handleSend(assistant)
    /\ UNCHANGED offAssistant

(* the chat request resolves OK with a reply: handleSend appends it to the *)
(* list it closed over; the request that ends a survey resets the survey   *)
ReplyArrives ==
    /\ \E request \in assistant.requests :
          LET replied == [assistant EXCEPT !.messages = Append(request.base, Reply),
                                           !.sending = FALSE,
                                           !.requests = @ \ {request}]
          IN  assistant' =
                  IF request.survey
                  THEN [replied EXCEPT !.surveyMode = FALSE, !.surveyStep = 0,
                                       !.surveyAnswers = <<>>]
                  ELSE replied
    /\ UNCHANGED offAssistant

(* the chat request resolves with a response that is not OK, or rejects,   *)
(* or its OK body is not JSON: setError in the catch block, setSending in  *)
(* the finally block                                                       *)
ChatRequestFails ==
    /\ \E request \in assistant.requests,
          message \in {"Assistant request failed.", "Unable to reach assistant."} :
          assistant' = [assistant EXCEPT !.error = ErrorOf(message),
                                         !.sending = FALSE,
                                         !.requests = @ \ {request}]
    /\ UNCHANGED offAssistant

(* clearChat, the button of the panel *)
clearChat(a) ==
    [a EXCEPT !.messages = <<NewChatStarted>>, !.selection = Null,
              !.surveyMode = FALSE, !.surveyStep = 0, !.surveyAnswers = <<>>]

ClearChat ==
    /\ assistant.isOpen
    /\ assistant' = clearChat(assistant)
    /\ UNCHANGED offAssistant

-----------------------------------------------------------------------------
(* what is idle while PerformancePage is the component observed *)
OffPageIdle ==
    NothingLookedUp /\ ChatWaiting /\ PerformanceVerified /\ AssistantUntouched

-----------------------------------------------------------------------------
(* The page, from the moment loadPerformance has sent its request *)

(* the memos recomputed by a render *)
Render ==
    /\ filteredPortfolio' = FilteredPortfolio(payload', rangeBounds')
    /\ filteredBenchmarks' = FilteredBenchmarks(payload', rangeBounds', selectedBenchmarks')
    /\ overlaySeries' = OverlaySeries(payload', rangeBounds', overlaySymbols')
    /\ metrics' = PageMetrics(filteredPortfolio', filteredBenchmarks', selectedBenchmarks')

(* the holdingsView and chartData memos: what the holdings table and the   *)
(* chart show in a state                                                   *)
holdingsView == HoldingsView(payload, rangeBounds)

chartData ==
    ChartData(payload, rangeBounds, filteredPortfolio, filteredBenchmarks,
              overlaySeries, viewMode)

(* the page in the given dataStatus, its payload not yet set, one of the   *)
(* given responses being what the backend will answer loadPerformance with *)
Unloaded(responses, status) ==
    /\ response \in responses
    /\ dataStatus = status
    /\ payload = Null
    /\ selectedBenchmarks = BENCHMARKS
    /\ viewMode = "indexed"
    /\ overlaySymbols = <<>>
    /\ rangeBounds = Null
    /\ filteredPortfolio = FilteredPortfolio(payload, rangeBounds)
    /\ filteredBenchmarks = FilteredBenchmarks(payload, rangeBounds, selectedBenchmarks)
    /\ overlaySeries = OverlaySeries(payload, rangeBounds, overlaySymbols)
    /\ metrics = PageMetrics(filteredPortfolio, filteredBenchmarks, selectedBenchmarks)

(* the page while loadPerformance awaits one of the given responses *)
Loading(responses) == Unloaded(responses, "loading")

Init == Loading(Responses) /\ OffPageIdle

(* loadPerformance, the response is OK: setPayload(data), setDataStatus("ready") *)
LoadPerformanceOk ==
    /\ dataStatus = "loading"
    /\ payload' = response
    /\ dataStatus' = "ready"
    /\ \E b \in RangeBoundsSet : rangeBounds' = b
    /\ UNCHANGED <<response, selectedBenchmarks, viewMode, overlaySymbols>>
    /\ Render
    /\ UNCHANGED offPage

(* loadPerformance, the response is not OK or the request throws *)
LoadPerformanceError ==
    /\ dataStatus = "loading"
    /\ dataStatus' = "error"
    /\ UNCHANGED <<response, payload, selectedBenchmarks, viewMode, overlaySymbols,
                   rangeBounds>>
    /\ Render
    /\ UNCHANGED offPage

(* a range button (shown when dataStatus is ready): the window changes and *)
(* the memos are recomputed                                                *)
SetSelectedRange ==
    /\ dataStatus = "ready"
    /\ \E b \in RangeBoundsSet : rangeBounds' = b
    /\ UNCHANGED <<response, dataStatus, payload, selectedBenchmarks, viewMode,
                   overlaySymbols>>
    /\ Render
    /\ UNCHANGED offPage

(* a benchmark button: prev.includes(b) ? prev.filter(x => x !== b) : [...prev, b] *)
ToggleBenchmark ==
    /\ dataStatus = "ready"
    /\ \E i \in 1..Len(BENCHMARKS) :
          LET b == BENCHMARKS[i]
          IN  selectedBenchmarks' =
                  IF \E j \in 1..Len(selectedBenchmarks) : selectedBenchmarks[j] = b
                  THEN SelectSeq(selectedBenchmarks, LAMBDA x : x # b)
                  ELSE Append(selectedBenchmarks, b)
    /\ UNCHANGED <<response, dataStatus, payload, viewMode, overlaySymbols, rangeBounds>>
    /\ Render
    /\ UNCHANGED offPage

(* the "$ value" and "Indexed %" buttons *)
SetViewMode ==
    /\ dataStatus = "ready"
    /\ \E mode \in {"value", "indexed"} : viewMode' = mode
    /\ UNCHANGED <<response, dataStatus, payload, selectedBenchmarks, overlaySymbols,
                   rangeBounds>>
    /\ Render
    /\ UNCHANGED offPage

(* toggleOverlay(h.symbol), one button for each of payload.holdings:       *)
(* prev.includes(symbol) ? prev.filter(s => s !== symbol) : [...prev, symbol] *)
ToggleOverlay ==
    /\ dataStatus = "ready"
    /\ \E i \in 1..Len(payload.holdings) :
          LET symbol == payload.holdings[i].symbol
          IN  overlaySymbols' =
                  IF \E j \in 1..Len(overlaySymbols) : overlaySymbols[j] = symbol
                  THEN SelectSeq(overlaySymbols, LAMBDA x : x # symbol)
                  ELSE Append(overlaySymbols, symbol)
    /\ UNCHANGED <<response, dataStatus, payload, selectedBenchmarks, viewMode,
                   rangeBounds>>
    /\ Render
    /\ UNCHANGED offPage

Next ==
    \/ LoadPerformanceOk
    \/ LoadPerformanceError
    \/ SetSelectedRange
    \/ ToggleBenchmark

Spec == Init /\ [][Next]_vars

(* The page with the holdings drawn: the holdings table follows the        *)
(* payload and the window only                                             *)
HoldingsInit == Loading(HoldingsResponses) /\ OffPageIdle

HoldingsNext ==
    \/ LoadPerformanceOk
    \/ LoadPerformanceError
    \/ SetSelectedRange

HoldingsSpec == HoldingsInit /\ [][HoldingsNext]_vars

(* The page with the chart inputs drawn, the benchmark left selected *)
ChartInit == Loading(ChartResponses) /\ OffPageIdle

ChartNext ==
    \/ LoadPerformanceOk
    \/ LoadPerformanceError
    \/ SetSelectedRange
    \/ SetViewMode
    \/ ToggleOverlay

ChartSpec == ChartInit /\ [][ChartNext]_vars

(* the page at its first render, with nothing to show *)
PageIdle ==
    Unloaded({Spread([portfolio |-> <<>>, benchmark_series |-> EmptyObject], NoHoldings)},
             "idle")

(* every component but PerformancePage, before anything happens to it *)
ElsewhereIdle == NothingLookedUp /\ ChatWaiting /\ FirstRender /\ AssistantUntouched

(* The as-of lookups, each called on drawn arguments *)
LookupInit == PageIdle /\ ElsewhereIdle

LookupNext ==
    \/ CallFindPositionAt
    \/ CallPriceAt
    \/ CallLookupValue

LookupSpec == LookupInit /\ [][LookupNext]_vars

(* One request to POST /api/ai/chat *)
ChatInit == PageIdle /\ ElsewhereIdle

ChatNext ==
    \/ POST
    \/ BackendResponds
    \/ BackendCallThrows

ChatSpec == ChatInit /\ [][ChatNext]_vars

(* The session check of the four dashboard pages, from their first render  *)
(* to the data request that follows a verified session                     *)
SessionInit == PageIdle /\ ElsewhereIdle

SessionNext ==
    \/ PerformanceMount
    \/ OptimizationMount
    \/ RiskMount
    \/ UploadMount
    \/ PerformanceVerifySessionOk
    \/ OptimizationVerifySessionOk
    \/ RiskVerifySessionOk
    \/ UploadVerifySessionOk
    \/ VerifySessionNotOk
    \/ VerifySessionError

SessionSpec == SessionInit /\ [][SessionNext]_vars

(* RiskPage, from its first render *)
RiskInit == PageIdle /\ ElsewhereIdle

RiskNext ==
    \/ RiskMount
    \/ RiskVerifySessionOk
    \/ VerifySessionNotOk
    \/ VerifySessionError
    \/ SetImportBatchId
    \/ SetAnalysisMode
    \/ HandleAnalyze
    \/ AnalyzeOk
    \/ AnalyzeUnauthorized
    \/ AnalyzeFails
    \/ FetchLatestClick
    \/ LatestOk
    \/ LatestUnauthorized
    \/ LatestFails

RiskSpec == RiskInit /\ [][RiskNext]_vars

(* OptimizationPage, from its first render *)
OptimizationInit == PageIdle /\ ElsewhereIdle

OptimizationNext ==
    \/ OptimizationMount
    \/ OptimizationVerifySessionOk
    \/ VerifySessionNotOk
    \/ VerifySessionError
    \/ SelectMethod
    \/ LoadMethodsOk
    \/ LoadMethodsFails
    \/ HandleRun
    \/ RunOk
    \/ RunUnauthorized
    \/ RunFails

OptimizationSpec == OptimizationInit /\ [][OptimizationNext]_vars

(* The assistant widget, from its mount *)
AssistantInit ==
    /\ PageIdle /\ NothingLookedUp /\ ChatWaiting /\ FirstRender
    /\ assistant \in AssistantMounted

AssistantNext ==
    \/ Navigate
    \/ HandleLaunch
    \/ ToggleOpen
    \/ TogglePicker
    \/ PickerClick
    \/ PickerEscape
    \/ ClearSelection
    \/ SetInput
    \/ HandleSend
    \/ ReplyArrives
    \/ ChatRequestFails
    \/ ClearChat

AssistantSpec == AssistantInit /\ [][AssistantNext]_vars

-----------------------------------------------------------------------------
(* Properties *)

MetricFields ==
    {"totalReturn", "totalAbs", "annualized", "volatility", "maxDrawdown",
     "sharpe", "beta", "correlation"}

AllNull(m) == DOMAIN m = MetricFields /\ \A f \in MetricFields : m[f] = Null

(* payload.portfolio and the benchmark series of the payload, once loaded *)
Portfolio == IF payload = Null THEN <<>> ELSE payload.portfolio
HasBenchmark == "SPY" \in DOMAIN filteredBenchmarks
Benchmark == filteredBenchmarks["SPY"]

DatesOf(series) == [i \in 1..Len(series) |-> series[i].date]

(* the day number of a window end *)
DayOf(t) == CHOOSE d \in Dates : parseDate(d) = t

(* C1: whenever the windowed portfolio has fewer than 2 points, every field *)
(* of the Metrics record is null, for computeMetrics alone and for the     *)
(* page's merge with computeRelativeMetrics, whatever the benchmark holds  *)
C1_FewerThanTwoPointsAllNull ==
    Len(filteredPortfolio) < 2 =>
        /\ AllNull(computeMetrics(filteredPortfolio))
        /\ AllNull(metrics)
        /\ HasBenchmark =>
               AllNull(Spread(computeMetrics(filteredPortfolio),
                              computeRelativeMetrics(filteredPortfolio, Benchmark)))

C1_Witness ==
    /\ Len(filteredPortfolio) = 1
    /\ HasBenchmark
    /\ Len(Benchmark) = 3
    /\ AllNull(metrics)

(* the points of a series whose day lies in the window, by index *)
InWindow(series) ==
    {i \in 1..Len(series) :
        /\ DayOf(rangeBounds.startDate) <= series[i].date
        /\ series[i].date <= DayOf(rangeBounds.endDate)}

IsWindowOf(filtered, series) ==
    /\ Len(filtered) = Cardinality(InWindow(series))
    /\ \A k \in 1..Len(filtered) : filtered[k] = series[Kth(InWindow(series), k)]

(* C2: filterSeries returns exactly the points with start <= date <= end,  *)
(* in their original order; the result is empty for an empty series, an    *)
(* inverted range and a window lying after the last date of the series     *)
C2_FilterSeriesInclusiveWindow ==
    dataStatus = "ready" =>
        /\ IsWindowOf(filteredPortfolio, Portfolio)
        /\ HasBenchmark => IsWindowOf(Benchmark, payload.benchmark_series["SPY"])
        /\ (\/ Len(Portfolio) = 0
            \/ rangeBounds.startDate > rangeBounds.endDate
            \/ /\ Len(Portfolio) > 0
               /\ DayOf(rangeBounds.startDate) > Portfolio[Len(Portfolio)].date)
           => filteredPortfolio = <<>>

C2_Witness ==
    /\ Len(Portfolio) = 3
    /\ rangeBounds.startDate = rangeBounds.endDate
    /\ Len(filteredPortfolio) = 1
    /\ parseDate(filteredPortfolio[1].date) = rangeBounds.endDate

(* the benchmark value at a date, for a benchmark that has the date *)
HasDate(benchmark, d) == \E j \in 1..Len(benchmark) : benchmark[j].date = d
ValueAt(benchmark, d) == benchmark[CHOOSE j \in 1..Len(benchmark) : benchmark[j].date = d].value

(* the indices i for which a return pair is due *)
DuePairs(pf, benchmark) ==
    {i \in 2..Len(pf) :
        /\ HasDate(benchmark, pf[i].date)
        /\ HasDate(benchmark, pf[i - 1].date)
        /\ pf[i - 1].value.n > 0
        /\ ValueAt(benchmark, pf[i - 1].date).n > 0}

ReturnOf(prev, curr) == Sub(Div(curr, prev), One)

(* C3: computeRelativeMetrics holds a return pair for index i exactly when *)
(* the benchmark has a value at portfolio[i].date and portfolio[i-1].date  *)
(* and both predecessor values are > 0; values are paired by date          *)
C3_PairsByDate ==
    HasBenchmark =>
        LET pf == filteredPortfolio
            due == DuePairs(pf, Benchmark)
            r == AlignedReturns(pf, Benchmark)
        IN  /\ Len(r.portReturns) = Cardinality(due)
            /\ Len(r.benchReturns) = Cardinality(due)
            /\ \A k \in 1..Cardinality(due) :
                   LET i == Kth(due, k)
                   IN  /\ r.portReturns[k] = ReturnOf(pf[i - 1].value, pf[i].value)
                       /\ r.benchReturns[k] =
                              ReturnOf(ValueAt(Benchmark, pf[i - 1].date),
                                       ValueAt(Benchmark, pf[i].date))

(* the benchmark lacks the first portfolio date: the one pair is that of   *)
(* the last two dates, and positions in the two arrays differ              *)
C3_Witness ==
    /\ HasBenchmark
    /\ DatesOf(filteredPortfolio) = <<0, 1, 30>>
    /\ DatesOf(Benchmark) = <<1, 30>>
    /\ Benchmark[1].value = Num(1)
    /\ Benchmark[2].value = Num(2)
    /\ filteredPortfolio[2].value = Num(2)
    /\ AlignedReturns(filteredPortfolio, Benchmark) =
           [portReturns |-> <<ReturnOf(Num(2), filteredPortfolio[3].value)>>,
            benchReturns |-> <<One>>]

(* portfolio dates d1, d2, d3 and benchmark dates d1, d3 *)
BenchmarkMissesMiddle ==
    /\ HasBenchmark
    /\ Len(filteredPortfolio) = 3
    /\ DatesOf(Benchmark) = <<filteredPortfolio[1].date, filteredPortfolio[3].date>>

(* C4, as claimed: with portfolio dates d1, d2, d3 and benchmark dates d1,  *)
(* d3, the pair spanning d1 -> d3 contributes a return pair                *)
C4_SpanningPairContributes ==
    (/\ BenchmarkMissesMiddle
     /\ \A i \in 1..3 : filteredPortfolio[i].value.n > 0
     /\ \A i \in 1..2 : Benchmark[i].value.n > 0)
    => Len(AlignedReturns(filteredPortfolio, Benchmark).portReturns) >= 1

(* C4, amended: with portfolio dates d1, d2, d3 and benchmark dates d1, d3 *)
(* no return pair contributes, and beta and correlation are null           *)
C4_NoPairAcrossMissingDate ==
    BenchmarkMissesMiddle =>
        /\ AlignedReturns(filteredPortfolio, Benchmark) = NoReturns
        /\ computeRelativeMetrics(filteredPortfolio, Benchmark) =
               [beta |-> Null, correlation |-> Null]
        /\ Len(selectedBenchmarks) > 0 =>
               metrics.beta = Null /\ metrics.correlation = Null

C4_Witness ==
    /\ BenchmarkMissesMiddle
    /\ \A i \in 1..3 : filteredPortfolio[i].value.n > 0
    /\ \A i \in 1..2 : Benchmark[i].value.n > 0
    /\ Benchmark[1].value # Benchmark[2].value
    /\ Len(selectedBenchmarks) > 0
    /\ metrics.beta = Null

NonDecreasing(values) ==
    \A i \in 1..(Len(values) - 1) : Le(values[i], values[i + 1])

NonIncreasing(values) ==
    \A i \in 1..(Len(values) - 1) : Ge(values[i], values[i + 1])

MaxOf(S) == CHOOSE x \in S : \A y \in S : Ge(x, y)
MinOf(S) == CHOOSE x \in S : \A y \in S : Le(x, y)

(* the running maximum of the values up to and including i *)
Peak(values, i) == MaxOf({values[j] : j \in 1..i})

PeaksPositive(values) == \A i \in 1..Len(values) : Gt(Peak(values, i), Zero)

(* (peak_i - value_i) / peak_i for each i *)
Drawdowns(values) ==
    {Div(Sub(Peak(values, i), values[i]), Peak(values, i)) : i \in 1..Len(values)}

(* C5: for every non-empty value series computeMaxDrawdown returns a value *)
(* >= 0, and exactly 0 when the series is non-decreasing                   *)
C5_MaxDrawdownNonNegative ==
    /\ \A s \in {Portfolio, filteredPortfolio} :
           Len(s) > 0 =>
               LET m == computeMaxDrawdown(ValuesOf(s))
               IN  /\ m # Null
                   /\ Ge(m, Zero)
                   /\ NonDecreasing(ValuesOf(s)) => m = Zero
    /\ Len(filteredPortfolio) >= 2 =>
           /\ Ge(metrics.maxDrawdown, Zero)
           /\ NonDecreasing(ValuesOf(filteredPortfolio)) => metrics.maxDrawdown = Zero

C5_Witness ==
    /\ Len(filteredPortfolio) = 3
    /\ NonDecreasing(ValuesOf(filteredPortfolio))
    /\ filteredPortfolio[1].value # filteredPortfolio[3].value
    /\ metrics.maxDrawdown = Zero

(* C6: where every running peak is positive, maxDrawdown is the maximum    *)
(* over i of (peak_i - value_i)/peak_i; it is 1 - min/max for a series     *)
(* that only decreases from its first value, and 1/10 for 100, 110, 99     *)
C6_MaxDrawdownIsLargestDrop ==
    /\ \A s \in {Portfolio, filteredPortfolio} :
           (Len(s) > 0 /\ PeaksPositive(ValuesOf(s))) =>
               LET v == ValuesOf(s)
                   m == computeMaxDrawdown(v)
                   all == {v[i] : i \in 1..Len(v)}
               IN  /\ m = MaxOf(Drawdowns(v))
                   /\ NonIncreasing(v) => m = Sub(One, Div(MinOf(all), MaxOf(all)))
    /\ (Len(filteredPortfolio) >= 2 /\ PeaksPositive(ValuesOf(filteredPortfolio))) =>
           metrics.maxDrawdown = MaxOf(Drawdowns(ValuesOf(filteredPortfolio)))
    /\ ValuesOf(filteredPortfolio) = <<Num(100), Num(110), Num(99)>> =>
           metrics.maxDrawdown = Rat(1, 10)

C6_Witness ==
    /\ ValuesOf(filteredPortfolio) = <<Num(100), Num(110), Num(99)>>
    /\ metrics.maxDrawdown = Rat(1, 10)

(* C7, as claimed: computeMetrics reports maxDrawdown non-null whenever    *)
(* the windowed series is non-empty, and 0 for a single-point series       *)
C7_MaxDrawdownDefinedWhenNonEmpty ==
    Len(filteredPortfolio) >= 1 =>
        /\ computeMetrics(filteredPortfolio).maxDrawdown # Null
        /\ metrics.maxDrawdown # Null
        /\ Len(filteredPortfolio) = 1 => metrics.maxDrawdown = Zero

(* C7, amended: computeMetrics reports maxDrawdown non-null exactly when   *)
(* the windowed series has at least 2 points; for a single-point series it *)
(* reports null, although computeMaxDrawdown of the single value is 0      *)
C7_MaxDrawdownDefinedFromTwoPoints ==
    /\ computeMetrics(filteredPortfolio).maxDrawdown # Null <=> Len(filteredPortfolio) >= 2
    /\ metrics.maxDrawdown # Null <=> Len(filteredPortfolio) >= 2
    /\ Len(filteredPortfolio) = 1 =>
           computeMaxDrawdown(ValuesOf(filteredPortfolio)) = Zero

C7_Witness ==
    /\ Len(filteredPortfolio) = 1
    /\ metrics.maxDrawdown = Null
    /\ computeMaxDrawdown(ValuesOf(filteredPortfolio)) = Zero

(* the number of calendar days from the first to the last sample *)
DaySpan(series) == series[Len(series)].date - series[1].date

(* C8: for at least 2 points, totalReturn is null exactly when the first   *)
(* value is <= 0, totalAbs is never null, and annualized is non-null       *)
(* exactly when totalReturn is non-null and the day span between the first *)
(* and the last sample is >= 30, whatever the number of samples            *)
C8_TotalReturnAndAnnualized ==
    Len(filteredPortfolio) >= 2 =>
        LET first == filteredPortfolio[1]
            last == filteredPortfolio[Len(filteredPortfolio)]
            span == DaySpan(filteredPortfolio)
        IN  /\ metrics.totalReturn = Null <=> first.value.n <= 0
            /\ metrics.totalReturn # Null =>
                   metrics.totalReturn = ReturnOf(first.value, last.value)
            /\ metrics.totalAbs = Sub(last.value, first.value)
            /\ metrics.totalAbs # Null
            /\ metrics.annualized # Null <=> (metrics.totalReturn # Null /\ span >= 30)
            /\ metrics.annualized # Null =>
                   metrics.annualized =
                       PowMinus1(Add(One, metrics.totalReturn), Rat(365, span))

(* 29 daily samples spanning 28 days *)
C8_Witness ==
    /\ Len(filteredPortfolio) = 29
    /\ DaySpan(filteredPortfolio) = 28
    /\ metrics.totalReturn # Null
    /\ metrics.annualized = Null

(* the indices whose predecessor has a positive value *)
DueReturns(series) == {i \in 2..Len(series) : series[i - 1].value.n > 0}

Squares(xs) == [i \in 1..Len(xs) |-> Mul(xs[i], xs[i])]

(* the population variance as the mean of the squares minus the square of  *)
(* the mean                                                                *)
PopulationVariance(xs) ==
    Sub(Div(Sum(Squares(xs)), Num(Len(xs))),
        Mul(Div(Sum(xs), Num(Len(xs))), Div(Sum(xs), Num(Len(xs)))))

(* C9: the daily-return list holds curr/prev - 1 for each consecutive pair *)
(* with prev > 0 and nothing for the other pairs; volatility is null       *)
(* exactly when the list is empty and otherwise the population standard    *)
(* deviation of the list times sqrt(252)                                   *)
C9_DailyReturnsAndVolatility ==
    Len(filteredPortfolio) >= 2 =>
        LET s == filteredPortfolio
            due == DueReturns(s)
            r == DailyReturns(s)
        IN  /\ Len(r) = Cardinality(due)
            /\ \A k \in 1..Cardinality(due) :
                   r[k] = ReturnOf(s[Kth(due, k) - 1].value, s[Kth(due, k)].value)
            /\ metrics.volatility = Null <=> Len(r) = 0
            /\ Len(r) > 0 =>
                   metrics.volatility = Sqrt(Mul(PopulationVariance(r), Num(252)))

(* a pair with predecessor 0 is skipped: one return, not two *)
C9_Witness ==
    /\ Len(filteredPortfolio) = 3
    /\ filteredPortfolio[1].value = Zero
    /\ filteredPortfolio[2].value = Num(1)
    /\ filteredPortfolio[3].value = Num(2)
    /\ DailyReturns(filteredPortfolio) = <<One>>
    /\ metrics.volatility = Sqrt(Zero)

AllEqual(xs) == \A i, j \in 1..Len(xs) : xs[i] = xs[j]

Aligned == AlignedReturns(filteredPortfolio, Benchmark)
Relative == computeRelativeMetrics(filteredPortfolio, Benchmark)

(* C11: correlation is null whenever either aligned return array is        *)
(* constant (its sum of squared deviations is 0) and beta is null whenever *)
(* the benchmark returns are constant (their variance is 0); beta null     *)
(* implies correlation null, and with one aligned pair both are null       *)
C11_NullOnZeroDeviation ==
    HasBenchmark =>
        LET a == Aligned.portReturns
            b == Aligned.benchReturns
        IN  /\ (AllEqual(a) \/ AllEqual(b)) => Relative.correlation = Null
            /\ AllEqual(b) => Relative.beta = Null
            /\ Relative.beta = Null => Relative.correlation = Null
            /\ Len(a) = 1 => Relative.beta = Null /\ Relative.correlation = Null
            /\ (Len(selectedBenchmarks) > 0 /\ Len(filteredPortfolio) > 0) =>
                   /\ metrics.beta = Relative.beta
                   /\ metrics.correlation = Relative.correlation

(* two aligned pairs, the portfolio returns differ and the benchmark       *)
(* returns are equal                                                       *)
C11_Witness ==
    /\ HasBenchmark
    /\ Len(selectedBenchmarks) > 0
    /\ Len(Aligned.portReturns) = 2
    /\ ~AllEqual(Aligned.portReturns)
    /\ AllEqual(Aligned.benchReturns)
    /\ metrics.beta = Null
    /\ metrics.correlation = Null

(* C20: the two aligned return arrays have equal length, so the guard of   *)
(* computeRelativeMetrics fires exactly when they are empty; when no       *)
(* consecutive portfolio pair has both dates in the benchmark and positive *)
(* predecessor values the result is {beta: null, correlation: null}        *)
C20_AlignedArraysEqualLength ==
    HasBenchmark =>
        /\ Len(Aligned.portReturns) = Len(Aligned.benchReturns)
        /\ (\/ Len(Aligned.portReturns) = 0
            \/ Len(Aligned.portReturns) # Len(Aligned.benchReturns))
           <=> DuePairs(filteredPortfolio, Benchmark) = {}
        /\ DuePairs(filteredPortfolio, Benchmark) = {} =>
               /\ Relative = [beta |-> Null, correlation |-> Null]
               /\ Len(selectedBenchmarks) > 0 =>
                      metrics.beta = Null /\ metrics.correlation = Null

(* both dates are in the benchmark and the benchmark's previous value is 0 *)
C20_Witness ==
    /\ HasBenchmark
    /\ Len(selectedBenchmarks) > 0
    /\ Len(filteredPortfolio) = 2
    /\ DatesOf(Benchmark) = DatesOf(filteredPortfolio)
    /\ filteredPortfolio[1].value.n > 0
    /\ Benchmark[1].value = Zero
    /\ Aligned = NoReturns
    /\ metrics.beta = Null

-----------------------------------------------------------------------------
(* Properties of the holdings table *)

Positions == payload.positions
StartDay == DayOf(rangeBounds.startDate)
EndDay == DayOf(rangeBounds.endDate)

(* the page shows the holdings of a payload that has position snapshots *)
HoldingsShown == dataStatus = "ready" /\ Len(Positions) > 0

(* the snapshots dated at or before a day, by index, and the latest one *)
SnapshotsUpTo(day) == {i \in 1..Len(Positions) : Positions[i].date <= day}

LatestSnapshotUpTo(day) ==
    Positions[CHOOSE i \in SnapshotsUpTo(day) :
                  \A j \in SnapshotsUpTo(day) : Positions[j].date <= Positions[i].date]

QuantityIn(snapshot, symbol) ==
    IF symbol \in DOMAIN snapshot.shares THEN snapshot.shares[symbol] ELSE Zero

(* the row of a holdings table for a holding *)
RowIn(view, holding) ==
    view[CHOOSE k \in 1..Len(view) : view[k].symbol = holding.symbol]

RowOf(holding) == RowIn(holdingsView, holding)

(* C12: for each holding, startShares is the symbol's quantity in the      *)
(* latest snapshot dated <= start, 0 when there is no such snapshot or the *)
(* symbol is absent from it; endShares (the row's shares) is taken from    *)
(* the latest snapshot dated <= end, or from the last snapshot overall     *)
(* when no snapshot is dated <= end                                        *)
C12_SharesCarriedForward ==
    HoldingsShown =>
        LET view == holdingsView
        IN
        \A i \in 1..Len(payload.holdings) :
            LET holding == payload.holdings[i]
                startShares == StartShares(payload, holding, rangeBounds.startDate)
                endShares == EndShares(payload, holding, rangeBounds.endDate)
            IN  /\ startShares =
                       IF SnapshotsUpTo(StartDay) = {} THEN Zero
                       ELSE QuantityIn(LatestSnapshotUpTo(StartDay), holding.symbol)
                /\ endShares =
                       IF SnapshotsUpTo(EndDay) = {}
                       THEN QuantityIn(Positions[Len(Positions)], holding.symbol)
                       ELSE QuantityIn(LatestSnapshotUpTo(EndDay), holding.symbol)
                /\ RowIn(view, holding).shares = endShares

(* the window ends before both snapshots: the shares are those of the last *)
(* snapshot, not of the first                                              *)
C12_Witness ==
    /\ HoldingsShown
    /\ Len(Positions) = 2
    /\ SnapshotsUpTo(EndDay) = {}
    /\ QuantityIn(Positions[1], "AAPL") = Num(1)
    /\ QuantityIn(Positions[2], "AAPL") = Num(2)
    /\ RowOf(payload.holdings[1]).shares = Num(2)
    /\ StartShares(payload, payload.holdings[1], rangeBounds.startDate) = Zero

(* the prices of a symbol dated at or before a day, by index; none when    *)
(* the payload has no series for the symbol                                *)
PricesUpTo(symbol, day) ==
    IF symbol \in DOMAIN payload.price_series
    THEN {i \in 1..Len(payload.price_series[symbol]) :
              payload.price_series[symbol][i].date <= day}
    ELSE {}

LatestPriceUpTo(symbol, day) ==
    LET series == payload.price_series[symbol]
    IN  series[CHOOSE i \in PricesUpTo(symbol, day) :
                   \A j \in PricesUpTo(symbol, day) : series[j].date <= series[i].date].value

SharesAtStart(holding) == StartShares(payload, holding, rangeBounds.startDate)
SharesAtEnd(holding) == EndShares(payload, holding, rangeBounds.endDate)
PriceAtStart(holding) == StartPrice(payload, holding, rangeBounds.startDate)
PriceAtEnd(holding) ==
    EndPrice(payload, holding, rangeBounds.startDate, rangeBounds.endDate)

(* C13, as claimed: when the symbol's price series has no price at or      *)
(* before start, the end price is substituted as the start price, and a    *)
(* holding with unchanged shares shows zero gain                           *)
C13_EndPriceSubstitutedForStart ==
    HoldingsShown =>
        LET view == holdingsView
        IN  \A i \in 1..Len(payload.holdings) :
                LET holding == payload.holdings[i]
                IN  PricesUpTo(holding.symbol, StartDay) = {} =>
                        /\ PriceAtStart(holding) = PriceAtEnd(holding)
                        /\ SharesAtStart(holding) = SharesAtEnd(holding) =>
                               RowIn(view, holding).gain_abs = Zero

(* C13, amended: when the symbol's price series has no price at or before  *)
(* start, the start price is 0, so that gain_pct is null and gain_abs is   *)
(* the current value, also for a holding with unchanged shares; it is the  *)
(* start price that is substituted as the end price, when the series has   *)
(* no price at or before end                                               *)
C13_MissingStartPriceIsZero ==
    HoldingsShown =>
        LET view == holdingsView
        IN  \A i \in 1..Len(payload.holdings) :
                LET holding == payload.holdings[i]
                    row == RowIn(view, holding)
                IN  /\ PricesUpTo(holding.symbol, StartDay) = {} =>
                           /\ PriceAtStart(holding) = Zero
                           /\ row.gain_pct = Null
                           /\ row.gain_abs = row.current_value
                    /\ PricesUpTo(holding.symbol, EndDay) = {} =>
                           PriceAtEnd(holding) = PriceAtStart(holding)
                    /\ PricesUpTo(holding.symbol, EndDay) # {} =>
                           PriceAtEnd(holding) = LatestPriceUpTo(holding.symbol, EndDay)

(* no price at or before start, unchanged shares, and a gain all the same *)
C13_Witness ==
    /\ HoldingsShown
    /\ PricesUpTo("AAPL", StartDay) = {}
    /\ PricesUpTo("AAPL", EndDay) # {}
    /\ SharesAtStart(payload.holdings[1]) = SharesAtEnd(payload.holdings[1])
    /\ Gt(SharesAtStart(payload.holdings[1]), Zero)
    /\ Gt(RowOf(payload.holdings[1]).gain_abs, Zero)
    /\ RowOf(payload.holdings[1]).gain_pct = Null

(* the shares and prices the claims give for a holding *)
ClaimedStartShares(holding) ==
    IF SnapshotsUpTo(StartDay) = {} THEN Zero
    ELSE QuantityIn(LatestSnapshotUpTo(StartDay), holding.symbol)

ClaimedEndShares(holding) ==
    IF SnapshotsUpTo(EndDay) = {}
    THEN QuantityIn(Positions[Len(Positions)], holding.symbol)
    ELSE QuantityIn(LatestSnapshotUpTo(EndDay), holding.symbol)

ClaimedStartPrice(holding) ==
    IF PricesUpTo(holding.symbol, StartDay) = {} THEN Zero
    ELSE LatestPriceUpTo(holding.symbol, StartDay)

ClaimedEndPrice(holding) ==
    IF PricesUpTo(holding.symbol, EndDay) = {} THEN ClaimedStartPrice(holding)
    ELSE LatestPriceUpTo(holding.symbol, EndDay)

(* the symbol is in no snapshot dated at or before start *)
AbsentUpToStart(symbol) ==
    \A i \in SnapshotsUpTo(StartDay) : symbol \notin DOMAIN Positions[i].shares

(* C14: in every row gain_abs = endShares*endPrice - startShares*startPrice *)
(* and gain_pct = gain_abs/startValue when startValue > 0, else null; a    *)
(* symbol held at end and absent from every snapshot at or before start    *)
(* has startShares = 0, gain_pct = null and gain_abs = current_value       *)
C14_GainFromStartAndEndValue ==
    HoldingsShown =>
        LET view == holdingsView
        IN  \A i \in 1..Len(payload.holdings) :
                LET holding == payload.holdings[i]
                    row == RowIn(view, holding)
                    startValue == Mul(ClaimedStartShares(holding), ClaimedStartPrice(holding))
                    endValue == Mul(ClaimedEndShares(holding), ClaimedEndPrice(holding))
                IN  /\ row.current_value = endValue
                    /\ row.gain_abs = Sub(endValue, startValue)
                    /\ row.gain_pct =
                           IF Gt(startValue, Zero)
                           THEN Div(Sub(endValue, startValue), startValue)
                           ELSE Null
                    /\ (AbsentUpToStart(holding.symbol) /\ Gt(row.shares, Zero)) =>
                           /\ SharesAtStart(holding) = Zero
                           /\ row.gain_pct = Null
                           /\ row.gain_abs = row.current_value

(* a snapshot at or before start without the symbol, which is held and     *)
(* priced at end                                                           *)
C14_Witness ==
    /\ HoldingsShown
    /\ SnapshotsUpTo(StartDay) # {}
    /\ AbsentUpToStart("AAPL")
    /\ PricesUpTo("AAPL", StartDay) # {}
    /\ Gt(RowOf(payload.holdings[1]).shares, Zero)
    /\ Gt(RowOf(payload.holdings[1]).current_value, Zero)
    /\ RowOf(payload.holdings[1]).gain_pct = Null
    /\ RowOf(payload.holdings[1]).gain_abs = RowOf(payload.holdings[1]).current_value

(* C15: computeHoldingPerformance returns one row per entry of holdings,   *)
(* and no row when positions is empty, ordered by current_value            *)
(* descending                                                              *)
C15_OneRowPerHoldingDescending ==
    dataStatus = "ready" =>
        LET view == holdingsView
        IN  /\ Len(Positions) = 0 => view = <<>>
            /\ Len(Positions) > 0 =>
                   /\ Len(view) = Len(payload.holdings)
                   /\ \A i \in 1..Len(payload.holdings) :
                          Cardinality({k \in 1..Len(view) :
                              view[k].symbol = payload.holdings[i].symbol}) = 1
            /\ \A a, b \in 1..Len(view) :
                   a < b => Ge(view[a].current_value, view[b].current_value)

(* two rows, in the order opposite to that of holdings *)
C15_Witness ==
    /\ HoldingsShown
    /\ Len(payload.holdings) = 2
    /\ Len(holdingsView) = 2
    /\ holdingsView[1].symbol = payload.holdings[2].symbol
    /\ Gt(holdingsView[1].current_value, holdingsView[2].current_value)

-----------------------------------------------------------------------------
(* Properties of the chart rows *)

(* the series the chart draws besides the portfolio, each with the key it  *)
(* has in a row: the selected benchmarks and the overlay symbols for which *)
(* the payload has a series                                                *)
Charted ==
    {[key |-> b, series |-> payload.benchmark_series[b]] :
        b \in {selectedBenchmarks[i] : i \in 1..Len(selectedBenchmarks)}
              \cap DOMAIN payload.benchmark_series}
    \cup
    {[key |-> "Overlay-" \o sym, series |-> payload.price_series[sym]] :
        sym \in {overlaySymbols[i] : i \in 1..Len(overlaySymbols)}
                \cap DOMAIN payload.price_series}

(* the in-window observations of a series dated at or before a day, by     *)
(* index, and the value of the last of them                                *)
ObservedUpTo(series, day) == {j \in InWindow(series) : series[j].date <= day}

LastObserved(series, day) ==
    series[CHOOSE j \in ObservedUpTo(series, day) :
               \A k \in ObservedUpTo(series, day) : series[k].date <= series[j].date].value

(* the first in-window value of a series *)
FirstInWindow(series) ==
    series[CHOOSE j \in InWindow(series) :
               \A k \in InWindow(series) : series[j].date <= series[k].date].value

(* percent change from a base *)
PercentFrom(value, base) == Mul(Sub(Div(value, base), One), Num(100))

(* what the chart shows for a value of a series: the value, or in indexed  *)
(* mode its percent change from the first in-window value of the series (a *)
(* first value of 0 counting as 1)                                         *)
Shown(value, first) ==
    IF viewMode = "indexed"
    THEN PercentFrom(value, IF first = Zero THEN One ELSE first)
    ELSE value

(* C16: buildChartData returns one row per point of the windowed           *)
(* portfolio, in the same order and with the same dates, and no rows when  *)
(* the windowed portfolio is empty; the value of a benchmark or overlay on *)
(* a row is that of its last in-window observation dated <= the row's date *)
C16_RowsCarryLastObservation ==
    dataStatus = "ready" =>
        LET rows == chartData
            fp == filteredPortfolio
        IN  /\ Len(rows) = Len(fp)
            /\ \A i \in 1..Len(rows) :
                   /\ rows[i]["date"] = fp[i].date
                   /\ rows[i]["Portfolio"] = Shown(fp[i].value, fp[1].value)
                   /\ \A c \in Charted :
                          ObservedUpTo(c.series, fp[i].date) # {} =>
                              /\ c.key \in DOMAIN rows[i]
                              /\ rows[i][c.key] =
                                     Shown(LastObserved(c.series, fp[i].date),
                                           FirstInWindow(c.series))

(* value mode: the benchmark has no point on the date of the second row,   *)
(* which shows the value of an earlier date, and the overlay is drawn      *)
C16_Witness ==
    /\ dataStatus = "ready"
    /\ viewMode = "value"
    /\ Len(chartData) = 2
    /\ "Overlay-AAPL" \in DOMAIN chartData[2]
    /\ "SPY" \in DOMAIN chartData[2]
    /\ ~HasDate(payload.benchmark_series["SPY"], chartData[2]["date"])
    /\ Gt(chartData[2]["SPY"], Zero)

(* the keys of the rows a charted series has a value in, by row index *)
RowsWith(rows, key) == {i \in 1..Len(rows) : key \in DOMAIN rows[i]}

(* C17: a benchmark or overlay with no in-window observation at or before  *)
(* a row's date adds no key to that row; once a series has a key in some   *)
(* row it has a key in every later row                                     *)
C17_NoObservationNoKey ==
    dataStatus = "ready" =>
        LET rows == chartData
            fp == filteredPortfolio
        IN  /\ \A i \in 1..Len(rows) :
                   /\ \A c \in Charted :
                          ObservedUpTo(c.series, fp[i].date) = {} =>
                              c.key \notin DOMAIN rows[i]
                   /\ DOMAIN rows[i] \subseteq
                          {"date", "Portfolio"} \cup {c.key : c \in Charted}
            /\ \A c \in Charted :
                   \A i \in RowsWith(rows, c.key) :
                       \A j \in (i + 1)..Len(rows) : j \in RowsWith(rows, c.key)

(* the benchmark starts after the first row: no key there, a key in the   *)
(* later rows                                                              *)
C17_Witness ==
    /\ dataStatus = "ready"
    /\ Len(chartData) = 3
    /\ RowsWith(chartData, "SPY") = {2, 3}
    /\ RowsWith(chartData, "Overlay-AAPL") = {1, 2, 3}

(* the first row a charted series has a key in *)
FirstRowWith(rows, key) ==
    CHOOSE i \in RowsWith(rows, key) : \A j \in RowsWith(rows, key) : i <= j

(* C18, as claimed: in indexed mode every series has chart value 0 at its  *)
(* first row                                                               *)
C18_IndexedFirstRowIsZero ==
    (dataStatus = "ready" /\ viewMode = "indexed") =>
        LET rows == chartData
        IN  /\ Len(rows) > 0 => rows[1]["Portfolio"] = Zero
            /\ \A c \in Charted :
                   RowsWith(rows, c.key) # {} =>
                       rows[FirstRowWith(rows, c.key)][c.key] = Zero

(* C18, amended: in indexed mode a series has chart value 0 at its first   *)
(* row when its first in-window value is not 0 and is the observation that *)
(* row carries; a first value of 0 is rebased on 1 and shows -100; a       *)
(* benchmark or overlay with later observations at or before its first row *)
(* shows the change from its first value to the last of them; each series  *)
(* is rebased on its own first in-window value                             *)
C18_IndexedFromOwnFirstValue ==
    (dataStatus = "ready" /\ viewMode = "indexed") =>
        LET rows == chartData
            fp == filteredPortfolio
        IN  /\ Len(rows) > 0 =>
                   rows[1]["Portfolio"] = IF fp[1].value = Zero THEN Num(-100) ELSE Zero
            /\ \A i \in 1..Len(rows) :
                   fp[1].value # Zero =>
                       rows[i]["Portfolio"] = PercentFrom(fp[i].value, fp[1].value)
            /\ \A c \in Charted :
                   RowsWith(rows, c.key) # {} =>
                       LET first == FirstRowWith(rows, c.key)
                           v0 == FirstInWindow(c.series)
                       IN  /\ (/\ v0 # Zero
                               /\ Cardinality(ObservedUpTo(c.series, fp[first].date)) = 1)
                              => rows[first][c.key] = Zero
                           /\ v0 = Zero =>
                                  rows[first][c.key] =
                                      PercentFrom(LastObserved(c.series, fp[first].date), One)
                           /\ v0 # Zero =>
                                  \A i \in RowsWith(rows, c.key) :
                                      rows[i][c.key] =
                                          PercentFrom(LastObserved(c.series, fp[i].date), v0)

(* three series with three different first values, all 0 at the first row *)
C18_Witness ==
    /\ dataStatus = "ready"
    /\ viewMode = "indexed"
    /\ Len(chartData) >= 2
    /\ filteredPortfolio[1].value = Num(MaxValue)
    /\ DOMAIN chartData[1] = {"date", "Portfolio", "SPY", "Overlay-AAPL"}
    /\ Gt(FirstInWindow(payload.benchmark_series["SPY"]), Zero)
    /\ FirstInWindow(payload.benchmark_series["SPY"])
           # FirstInWindow(payload.price_series["AAPL"])
    /\ FirstInWindow(payload.benchmark_series["SPY"]) # Num(MaxValue)
    /\ \A k \in {"Portfolio", "SPY", "Overlay-AAPL"} : chartData[1][k] = Zero

-----------------------------------------------------------------------------
(* Properties of the engine as a whole *)

(* a result is a finite number: not NaN, not an infinity, not null *)
Finite(x) == "n" \in DOMAIN x /\ x.d > 0

(* the square root of a finite number >= 0 *)
FiniteRoot(x) == "sqrt" \in DOMAIN x /\ Finite(x.sqrt) /\ Ge(x.sqrt, Zero)

(* a finite number divided by a square root that is not 0 *)
FiniteQuotient(x) ==
    /\ "num" \in DOMAIN x
    /\ Finite(x.num)
    /\ FiniteRoot(x.den)
    /\ Gt(x.den.sqrt, Zero)

(* a power of a finite base >= 0 with a finite exponent, minus 1 *)
FinitePower(x) ==
    "base" \in DOMAIN x /\ Finite(x.base) /\ Ge(x.base, Zero) /\ Finite(x.exp)

(* every field of the metrics, every value of a chart row and every figure *)
(* of a holdings row is null or a finite number                            *)
ResultsWellFormed ==
    LET rows == chartData
        view == holdingsView
    IN  /\ DOMAIN metrics = MetricFields
        /\ \A f \in {"totalReturn", "totalAbs", "maxDrawdown", "beta"} :
               metrics[f] = Null \/ Finite(metrics[f])
        /\ metrics.volatility = Null \/ FiniteRoot(metrics.volatility)
        /\ metrics.sharpe = Null \/ FiniteQuotient(metrics.sharpe)
        /\ metrics.correlation = Null \/ FiniteQuotient(metrics.correlation)
        /\ metrics.annualized = Null \/ FinitePower(metrics.annualized)
        /\ \A i \in 1..Len(rows) :
               \A k \in DOMAIN rows[i] \ {"date"} : Finite(rows[i][k])
        /\ \A i \in 1..Len(view) :
               /\ Finite(view[i].shares)
               /\ Finite(view[i].current_value)
               /\ Finite(view[i].gain_abs)
               /\ view[i].gain_pct = Null \/ Finite(view[i].gain_pct)

(* too few samples, a zero denominator of a ratio and dates without a      *)
(* partner give null fields and absent keys                                *)
DegenerateCasesYieldNull ==
    LET fp == filteredPortfolio
        rows == chartData
        view == holdingsView
    IN  /\ Len(fp) < 2 => AllNull(metrics)
        /\ (Len(fp) >= 2 /\ fp[1].value = Zero) =>
               metrics.totalReturn = Null /\ metrics.annualized = Null
        /\ (Len(fp) >= 2 /\ DueReturns(fp) = {}) =>
               metrics.volatility = Null /\ metrics.sharpe = Null
        /\ (Len(fp) >= 2 /\ AllEqual(DailyReturns(fp))) => metrics.sharpe = Null
        /\ (HasBenchmark /\ DuePairs(fp, Benchmark) = {}) =>
               metrics.beta = Null /\ metrics.correlation = Null
        /\ (HasBenchmark /\ AllEqual(Aligned.benchReturns)) =>
               metrics.beta = Null /\ metrics.correlation = Null
        /\ \A i \in 1..Len(view) :
               (view[i].gain_abs = view[i].current_value) => view[i].gain_pct = Null
        /\ \A i \in 1..Len(rows) :
               \A c \in Charted :
                   ObservedUpTo(c.series, fp[i].date) = {} => c.key \notin DOMAIN rows[i]

(* a drawdown term has denominator 0: some running peak of the windowed    *)
(* portfolio is 0                                                          *)
ZeroPeak == Len(filteredPortfolio) >= 2 /\ ~PeaksPositive(ValuesOf(filteredPortfolio))

(* the indexed chart has base 0: the first windowed portfolio value is 0   *)
ZeroBase ==
    /\ viewMode = "indexed"
    /\ Len(filteredPortfolio) > 0
    /\ filteredPortfolio[1].value = Zero

(* C19, as claimed: no operation of the engine raises an error, and every  *)
(* degenerate case (too few samples, a zero denominator, non-aligned       *)
(* dates) yields a null field or an absent chart key, never a number       *)
C19_EveryDegenerateCaseYieldsNull ==
    dataStatus = "ready" =>
        /\ ResultsWellFormed
        /\ DegenerateCasesYieldNull
        /\ ZeroPeak => metrics.maxDrawdown = Null
        /\ ZeroBase => \A i \in 1..Len(chartData) : "Portfolio" \notin DOMAIN chartData[i]

(* C19, amended: no operation of the engine raises an error and every      *)
(* result is null, absent or a finite number; too few samples, a zero      *)
(* denominator of a return, of the Sharpe ratio, of beta, of correlation   *)
(* and of gain_pct, and non-aligned dates yield null fields or absent      *)
(* keys; but the drawdown terms with a zero peak are skipped and           *)
(* maxDrawdown is a number, and an indexed series with first value 0 is    *)
(* rebased on 1 and charted as a number                                    *)
C19_NoErrorNullOrNumber ==
    dataStatus = "ready" =>
        /\ ResultsWellFormed
        /\ DegenerateCasesYieldNull
        /\ ZeroPeak => Finite(metrics.maxDrawdown)
        /\ (ZeroPeak /\ \A i \in 1..Len(filteredPortfolio) :
                            filteredPortfolio[i].value = Zero)
               => metrics.maxDrawdown = Zero
        /\ ZeroBase =>
               \A i \in 1..Len(chartData) :
                   chartData[i]["Portfolio"] =
                       PercentFrom(filteredPortfolio[i].value, One)

(* a windowed portfolio that starts at 0: totalReturn is null, maxDrawdown *)
(* is the number 0, the chart shows -100, and the benchmark has no date in *)
(* common with the portfolio                                               *)
C19_Witness ==
    /\ dataStatus = "ready"
    /\ ZeroPeak
    /\ ZeroBase
    /\ HasBenchmark
    /\ Len(Benchmark) > 0
    /\ DuePairs(filteredPortfolio, Benchmark) = {}
    /\ metrics.totalReturn = Null
    /\ metrics.beta = Null
    /\ metrics.maxDrawdown = Zero
    /\ chartData[1]["Portfolio"] = Num(-100)
    /\ Len(holdingsView) = 1
    /\ holdingsView[1].gain_pct = Null

-----------------------------------------------------------------------------
(* The as-of lookups *)

(* sorted ascending by date (equal dates may follow each other) *)
SortedByDate(series) ==
    \A i \in 1..(Len(series) - 1) : series[i].date <= series[i + 1].date

(* the entries of the looked-up series dated at or before the target: the  *)
(* target of findPositionAt and priceAt is a Date, that of lookupValue a   *)
(* date string                                                             *)
DatedUpToTarget ==
    {i \in 1..Len(lookedUp.series) :
        IF lookedUp.fn = "lookupValue"
        THEN lookedUp.series[i].date <= lookedUp.target
        ELSE parseDate(lookedUp.series[i].date) <= lookedUp.target}

(* the last entry of the greatest date at or before the target: the        *)
(* snapshot itself for findPositionAt, its value for the other two         *)
GreatestDatedUpToTarget ==
    LET i == CHOOSE i \in DatedUpToTarget : \A j \in DatedUpToTarget : j <= i
    IN  IF lookedUp.fn = "findPositionAt"
        THEN lookedUp.series[i]
        ELSE lookedUp.series[i].value

(* C21: on a series sorted ascending by date, findPositionAt, priceAt and  *)
(* lookupValue return the entry of the greatest date at or before the      *)
(* target, and null when no entry is dated at or before the target, the    *)
(* empty series included                                                   *)
C21_LastObservationAtOrBeforeTarget ==
    (lookedUp.fn # "none" /\ SortedByDate(lookedUp.series)) =>
        IF DatedUpToTarget = {}
        THEN lookedUp.result = Null
        ELSE lookedUp.result = GreatestDatedUpToTarget

(* priceAt on a sorted series of three prices whose second is the last one *)
(* at or before the target returned that second price, which differs from  *)
(* the other two                                                           *)
C21_Witness ==
    /\ lookedUp.fn = "priceAt"
    /\ Len(lookedUp.series) = 3
    /\ SortedByDate(lookedUp.series)
    /\ DatedUpToTarget = {1, 2}
    /\ lookedUp.result = lookedUp.series[2].value
    /\ lookedUp.series[1].value # lookedUp.result
    /\ lookedUp.series[3].value # lookedUp.result

-----------------------------------------------------------------------------
(* The POST handler of /api/ai/chat *)

Returned == handlerPc = "returned"

(* the request carries a non-empty messages array in a JSON body *)
HasMessages ==
    /\ req # Null
    /\ req.body # InvalidJson
    /\ ~NoMessages(req.body)

(* the backend call resolved with a response *)
BackendAnswered == backendRes # Null /\ backendRes # Threw

(* C22: the handler never contacts the backend for a request whose body is *)
(* not valid JSON or whose messages are missing or empty, and answers it   *)
(* with 400; a forwarded request is answered with the status of the        *)
(* backend (and the body {} when the backend's body is not JSON); the      *)
(* handler answers 500 of its own only when the backend call threw         *)
C22_RelaysBackendStatus ==
    /\ (req # Null /\ ~HasMessages) =>
           /\ backendRequests = <<>>
           /\ Returned /\ answer.status = 400
    /\ (Returned /\ BackendAnswered) =>
           /\ answer.status = backendRes.status
           /\ (backendRes.body = NotJson => answer.body = EmptyObject)
    /\ (Returned /\ answer = AssistantCallFailed) => backendRes = Threw

-----------------------------------------------------------------------------
(* The session check of the dashboard pages *)

(* a step changes the authStatus of a page only from checking, to ready    *)
(* with GET /me returned OK or to error                                    *)
AuthStatusMoves ==
    \A p \in Pages :
        authStatus'[p] # authStatus[p] =>
            /\ authStatus[p] = "checking"
            /\ \/ authStatus'[p] = "ready" /\ meRequest'[p] = "ok"
               \/ authStatus'[p] = "error"

(* a page that has issued a data request has authStatus ready *)
NoRequestBeforeReady == \A p \in Pages : requested[p] # {} => authStatus[p] = "ready"

(* GET /me returned not OK: the page went to /signin, authStatus checking *)
RedirectedWhenNotOk ==
    \A p \in Pages :
        meRequest[p] = "notOk" => route[p] = "/signin" /\ authStatus[p] = "checking"

(* C23: on the performance, optimization, risk and upload pages authStatus *)
(* moves only from checking to ready (after GET /me returned OK) or from   *)
(* checking to error; no data request (performance data, method catalog,   *)
(* latest risk analysis, latest upload) is issued before authStatus is     *)
(* ready; when /me returns non-OK the page redirects to /signin and        *)
(* authStatus stays checking                                               *)
C23_SessionCheckedBeforeData ==
    /\ [][AuthStatusMoves]_vars
    /\ [](NoRequestBeforeReady /\ RedirectedWhenNotOk)

(* every page has requested its data after a verified session *)
C23_Witness ==
    /\ \A p \in Pages : authStatus[p] = "ready" /\ meRequest[p] = "ok"
    /\ requested = [performance |-> {"/api/performance/portfolio"},
                    optimization |-> {"/api/optimize/methods"},
                    risk |-> {"/api/risk/latest"},
                    upload |-> {"/portfolio-uploads/latest"}]
    /\ dataStatus = "loading"
    /\ optimization.methodsStatus = "loading"
    /\ risk.latestRiskStatus = "loading"
    /\ upload.latestStatus = "loading"

-----------------------------------------------------------------------------
(* The assistant widget *)

(* the step is a call of handleSend from the panel *)
SendCalled == assistant.isOpen /\ assistant' = handleSend(assistant)

(* the step settles one of the outstanding chat requests *)
RequestSettles ==
    \E request \in assistant.requests :
        assistant'.requests = assistant.requests \ {request}

(* a handleSend call made while sending, or with a blank input, changes    *)
(* nothing and adds no request                                             *)
RefusedSendChangesNothing ==
    (SendCalled /\ (assistant.sending \/ Trim(assistant.input) = "")) =>
        assistant' = assistant

(* sending is true exactly while a request is outstanding, and there is at *)
(* most one                                                                *)
SendingWhileOutstanding ==
    /\ Cardinality(assistant.requests) <= 1
    /\ assistant.sending <=> assistant.requests # {}

(* C24: a handleSend call made while sending is true, or with a blank      *)
(* input, changes no state and issues no request, so that at most one chat *)
(* request is outstanding at any time; sending is false again after every  *)
(* completion path (a survey step that is not the last, success, HTTP      *)
(* error, network error)                                                   *)
C24_OneRequestAtATime ==
    /\ [][RefusedSendChangesNothing]_vars
    /\ [][RequestSettles => ~assistant'.sending]_vars
    /\ [](SendingWhileOutstanding)

(* a request is outstanding while the user has typed the next message *)
C24_Witness ==
    /\ assistant.sending
    /\ Cardinality(assistant.requests) = 1
    /\ assistant.input = "a"
    /\ assistant.isOpen

(* the step is an answer to a survey question: a handleSend call that is   *)
(* not refused, in survey mode, with a question left to answer             *)
Answering ==
    /\ SendCalled
    /\ ~(assistant.sending \/ Trim(assistant.input) = "")
    /\ assistant.surveyMode
    /\ assistant.surveyStep < Len(SURVEY_QUESTIONS)

(* the survey of a step: it starts at 0; an answer adds one to surveyStep, *)
(* the first three appending the next question without a request, the      *)
(* fourth issuing the one request; the survey is ended by the success of   *)
(* that request (which resets the survey state), by clearChat or by a      *)
(* launch that is not a survey, and by nothing else                        *)
SurveyProceeds ==
    /\ assistant'.surveyStep \in 0..Len(SURVEY_QUESTIONS)
    /\ (assistant'.surveyMode /\ ~assistant.surveyMode) =>
           assistant'.surveyStep = 0 /\ assistant'.surveyAnswers = <<>>
    /\ Answering =>
           /\ assistant'.surveyStep = assistant.surveyStep + 1
           /\ assistant'.surveyStep < Len(SURVEY_QUESTIONS) =>
                  /\ assistant'.requests = assistant.requests
                  /\ assistant'.messages[Len(assistant'.messages)]
                         = Question(assistant'.surveyStep + 1)
           /\ assistant'.surveyStep = Len(SURVEY_QUESTIONS) =>
                  /\ assistant.requests = {}
                  /\ Cardinality(assistant'.requests) = 1
    /\ (assistant'.surveyStep # assistant.surveyStep /\ ~Answering) =>
           assistant'.surveyStep = 0
    /\ (RequestSettles /\ assistant.surveyMode /\ ~assistant'.surveyMode) =>
           /\ assistant.surveyStep = Len(SURVEY_QUESTIONS)
           /\ assistant'.surveyStep = 0 /\ assistant'.surveyAnswers = <<>>

(* C25: after a survey launch surveyStep starts at 0, increases by exactly *)
(* 1 with each non-blank answer and never exceeds the number of questions  *)
(* (4); answers 1 to 3 each append the next 'Question k of 4' message      *)
(* without a request; exactly one request is issued, on the 4th answer,    *)
(* and its success resets the survey (surveyMode false, surveyStep 0,      *)
(* no answers)                                                             *)
C25_SurveyRunsToItsRequest == [][SurveyProceeds]_vars

(* C26: in every reachable state of the widget pickerActive implies isOpen *)
(* (togglePicker, which alone switches the picker on, opens the panel;     *)
(* toggleOpen, a launch, Escape and a click outside switch the picker off) *)
C26_PickerOnlyWhileOpen == assistant.pickerActive => assistant.isOpen

(* the picker is active, the panel open, after an element was selected *)
C26_Witness ==
    /\ assistant.pickerActive
    /\ assistant.isOpen
    /\ assistant.selection = SelectionPayload

(* the messages of a list *)
MessagesOf(messages) == {messages[i] : i \in 1..Len(messages)}

(* C27: after clearChat or a survey launch has replaced the message list,  *)
(* no message of the earlier conversation reappears in messages, even when *)
(* a chat request issued before the reset completes after it: the step     *)
(* that settles a request brings no message into the list but the reply,   *)
(* as its last message                                                     *)
C27_NoEarlierMessageReturns ==
    [][RequestSettles =>
          \A i \in 1..Len(assistant'.messages) :
              \/ assistant'.messages[i] \in MessagesOf(assistant.messages)
              \/ i = Len(assistant'.messages) /\ assistant'.messages[i] = Reply]_vars

-----------------------------------------------------------------------------
(* The run of OptimizationPage *)

(* a result is shown only in runStatus idle; there is a runError exactly   *)
(* in runStatus error                                                      *)
RunStateConsistent ==
    /\ optimization.result # Null => optimization.runStatus = "idle"
    /\ optimization.runError # Null <=> optimization.runStatus = "error"

(* the step that sends a run request has cleared the result and the error *)
RunStartClears ==
    optimization'.runPending > optimization.runPending =>
        /\ optimization'.result = Null
        /\ optimization'.runError = Null
        /\ optimization'.runStatus = "running"

(* C28: on the optimization page, Run being disabled while runStatus is    *)
(* running, result is non-null only when runStatus is idle, runError is    *)
(* non-null exactly when runStatus is error, and every run start clears    *)
(* the previous result and error before the request is sent                *)
C28_RunStateConsistent ==
    /\ [](RunStateConsistent)
    /\ [][RunStartClears]_vars

(* a run is outstanding that was started from a failed run: the error of   *)
(* the failed run is cleared                                               *)
C28_Witness ==
    /\ optimization.runStatus = "running"
    /\ optimization.runPending = 1
    /\ optimization.runError = Null
    /\ optimization.result = Null
    /\ optimization.methodsStatus = "error"

-----------------------------------------------------------------------------
(* The fetches of RiskPage *)

(* the step that sends the automatic fetch ends with authStatus ready and  *)
(* the stored batch id read                                                *)
AutomaticFetchWhenReady ==
    risk'.automaticFetches > risk.automaticFetches =>
        /\ authStatus'["risk"] = "ready"
        /\ risk'.localBatchReady
        /\ "/api/risk/latest" \in requested'["risk"]

(* C29: on the risk page the automatic fetch of the latest analysis is     *)
(* issued at most once per mount, and only after authStatus is ready and   *)
(* localBatchReady is true                                                 *)
C29_AutomaticFetchOnce ==
    /\ [](risk.automaticFetches <= 1)
    /\ [][AutomaticFetchWhenReady]_vars

(* the automatic fetch was answered and the batch id edited to a value     *)
(* that was not stored, so the effect ran again; no fetch is outstanding   *)
C29_Witness ==
    /\ risk.automaticFetches = 1
    /\ risk.importBatchId = "batch-2"
    /\ risk.latestRiskStatus = "idle"
    /\ risk.latestPending = 0
    /\ route["risk"] = "page"

(* C30: on the risk page, while a request of handleAnalyze is outstanding, *)
(* analysisStatus stays running and analysisResult stays null, whatever    *)
(* other user actions (Fetch latest, mode change, editing the batch id)    *)
(* interleave, so Run analysis is not enabled again before the request     *)
(* completes                                                               *)
C30_AnalysisRunsUndisturbed ==
    AnalyzeOutstanding =>
        /\ risk.analysisStatus = "running"
        /\ risk.analysisResult = Null

====
